---- MODULE Spec2Model ----
(***************************************************************************)
(* Model of the wiki export pipeline: ExportService.exportDocuments        *)
(* (orchestrator), MarkdownExporter.exportCatalogs with its FLAT and TREE  *)
(* layout strategies, the hierarchy codec and the numbering engine.        *)
(*                                                                         *)
(* Strings whose characters matter (ids, names) are sequences of           *)
(* one-character strings, so that split('_') and the regular expressions   *)
(* of cleanDocumentName are computed and not assumed.                      *)
(***************************************************************************)
EXTENDS Integers, Sequences, FiniteSets, TLC

(***************************************************************************)
(* Bounds of the model.                                                    *)
(***************************************************************************)
MaxSelected == 2
MaxSinkCall == 4
MaxRetries == 5
MaxItems == 5
MaxWindow == 3
MaxAncestors == 2
MaxTokens == 3

None == "none"

(***************************************************************************)
(* Generic sequence helpers.                                               *)
(***************************************************************************)
Range(s) == {s[i] : i \in 1..Len(s)}

RECURSIVE Concat(_)
Concat(ss) == IF ss = <<>> THEN <<>> ELSE Head(ss) \o Concat(Tail(ss))

(***************************************************************************)
(* Hierarchy codec: String.prototype.split('_') and the decoders.          *)
(***************************************************************************)
Sep == "_"

RECURSIVE SplitAcc(_, _, _)
SplitAcc(s, cur, acc) ==
  IF s = <<>> THEN Append(acc, cur)
  ELSE IF Head(s) = Sep THEN SplitAcc(Tail(s), <<>>, Append(acc, cur))
       ELSE SplitAcc(Tail(s), Append(cur, Head(s)), acc)

split(s) == SplitAcc(s, <<>>, <<>>)

\* parts[parts.length - 1] || hierarchyId
getOriginalId(hierarchyId) ==
  LET parts == split(hierarchyId)
  IN IF parts[Len(parts)] # <<>> THEN parts[Len(parts)] ELSE hierarchyId

\* the id used as it is, without decoding
getOriginalDocumentId_Identity(hierarchyId) == hierarchyId

getOriginalDocumentId(hierarchyId) ==
  LET parts == split(hierarchyId)
  IN IF parts[Len(parts)] # <<>> THEN parts[Len(parts)] ELSE hierarchyId

\* parentPath ? `${parentPath}_${catalog.id}` : catalog.id
hierarchyPath(parentPath, id) ==
  IF parentPath # <<>> THEN parentPath \o <<Sep>> \o id ELSE id

(***************************************************************************)
(* Catalog trees.  A WikiCatalog is a record                               *)
(*   [id, name, status, hasSub, sub]                                       *)
(* where hasSub tells whether the subCatalog property is present and sub   *)
(* is its array (<<>> when absent).  A forest is a sequence of catalogs.   *)
(***************************************************************************)
Catalog(id, name, status, hasSub, sub) ==
  [id |-> id, name |-> name, status |-> status, hasSub |-> hasSub, sub |-> sub]

\* catalog.subCatalog && catalog.subCatalog.length > 0
hasChildren(c) == c.hasSub /\ Len(c.sub) > 0

RECURSIVE flattenCatalogHierarchy(_)
flattenCatalogHierarchy(catalogs) ==
  IF catalogs = <<>> THEN <<>>
  ELSE LET c == Head(catalogs)
       IN <<c>>
          \o (IF hasChildren(c) THEN flattenCatalogHierarchy(c.sub) ELSE <<>>)
          \o flattenCatalogHierarchy(Tail(catalogs))

\* a status test that lets every catalog through
IsCompleted_Any(c) == c.status \in {"completed", "failed"}

IsCompleted(c) == c.status = "completed"

\* the array reached from a forest by following child indices
RECURSIVE ArrayAt(_, _)
ArrayAt(forest, ip) ==
  IF ip = <<>> THEN forest ELSE ArrayAt(forest[Head(ip)].sub, Tail(ip))

\* Array.prototype.push on the array reached by ip
RECURSIVE PushAt(_, _, _)
PushAt(forest, ip, node) ==
  IF ip = <<>> THEN Append(forest, node)
  ELSE [forest EXCEPT ![Head(ip)].sub = PushAt(@, Tail(ip), node)]

(***************************************************************************)
(* ExportService.reconstructHierarchy.  originalIdMap is a Map filled in   *)
(* pre-order, so a later entry with the same id replaces an earlier one.   *)
(* currentParent is a reference to an array of the output tree; it is      *)
(* modelled by the index path ip that leads to that array.                 *)
(***************************************************************************)
RECURSIVE createOriginalIdMap(_)
createOriginalIdMap(catalogs) ==
  IF catalogs = <<>> THEN <<>>
  ELSE LET c == Head(catalogs)
       IN <<c>>
          \o (IF c.hasSub THEN createOriginalIdMap(c.sub) ELSE <<>>)
          \o createOriginalIdMap(Tail(catalogs))

MapHas(entries, id) == \E i \in 1..Len(entries) : entries[i].id = id

MapGet(entries, id) ==
  entries[CHOOSE i \in 1..Len(entries) :
            /\ entries[i].id = id
            /\ \A j \in (i+1)..Len(entries) : entries[j].id # id]

\* currentParent.find(doc => this.getOriginalId(doc.id) === currentId)
FindIndex(arr, currentId) ==
  IF \E i \in 1..Len(arr) : getOriginalId(arr[i].id) = currentId
  THEN CHOOSE i \in 1..Len(arr) :
         /\ getOriginalId(arr[i].id) = currentId
         /\ \A j \in 1..(i-1) : getOriginalId(arr[j].id) # currentId
  ELSE 0

\* an iteration that puts a new top-level node in front of the others
SegmentStep_Unshift(st, pathParts, i, idMap) ==
  LET currentId == pathParts[i]
      arr       == ArrayAt(st.root, st.ip)
      found     == FindIndex(arr, currentId)
      create    == found = 0 /\ MapHas(idMap, currentId)
      orig      == MapGet(idMap, currentId)
      newNode   == Catalog(currentId, orig.name, orig.status,
                           i < Len(pathParts), <<>>)
      atRoot    == st.ip = <<>>
      root2     == IF ~create THEN st.root
                   ELSE IF atRoot THEN <<newNode>> \o st.root
                   ELSE PushAt(st.root, st.ip, newNode)
      idx       == IF ~create THEN found
                   ELSE IF atRoot THEN 1 ELSE Len(arr) + 1
      descend   == /\ i < Len(pathParts)
                   /\ idx # 0
                   /\ ArrayAt(root2, st.ip)[idx].hasSub
  IN IF currentId = <<>> THEN st
     ELSE [root |-> root2,
           ip   |-> IF descend THEN Append(st.ip, idx) ELSE st.ip]

\* one iteration of the segment loop: state st = [root, ip]
SegmentStep(st, pathParts, i, idMap) ==
  LET currentId == pathParts[i]
      arr       == ArrayAt(st.root, st.ip)
      found     == FindIndex(arr, currentId)
      create    == found = 0 /\ MapHas(idMap, currentId)
      orig      == MapGet(idMap, currentId)
      newNode   == Catalog(currentId, orig.name, orig.status,
                           i < Len(pathParts), <<>>)
      root2     == IF create THEN PushAt(st.root, st.ip, newNode) ELSE st.root
      idx       == IF create THEN Len(arr) + 1 ELSE found
      descend   == /\ i < Len(pathParts)
                   /\ idx # 0
                   /\ ArrayAt(root2, st.ip)[idx].hasSub
  IN IF currentId = <<>> THEN st
     ELSE [root |-> root2,
           ip   |-> IF descend THEN Append(st.ip, idx) ELSE st.ip]

RECURSIVE SegmentLoop(_, _, _, _)
SegmentLoop(st, pathParts, i, idMap) ==
  IF i > Len(pathParts) THEN st
  ELSE SegmentLoop(SegmentStep(st, pathParts, i, idMap), pathParts, i + 1, idMap)

RECURSIVE SelectionLoop(_, _, _)
SelectionLoop(root, selectedDocuments, idMap) ==
  IF selectedDocuments = <<>> THEN root
  ELSE LET pathParts == split(Head(selectedDocuments).id)
           st == SegmentLoop([root |-> root, ip |-> <<>>], pathParts, 1, idMap)
       IN SelectionLoop(st.root, Tail(selectedDocuments), idMap)

reconstructHierarchy(originalDocuments, selectedDocuments) ==
  SelectionLoop(<<>>, selectedDocuments, createOriginalIdMap(originalDocuments))

(***************************************************************************)
(* Numbering engine: cleanDocumentName and assignDocumentNumbers.          *)
(***************************************************************************)
LowerCase == <<"a","b","c","d","e","f","g","h","i","j","k","l","m",
               "n","o","p","q","r","s","t","u","v","w","x","y","z">>
UpperCase == <<"A","B","C","D","E","F","G","H","I","J","K","L","M",
               "N","O","P","Q","R","S","T","U","V","W","X","Y","Z">>

toLowerCase(c) ==
  IF \E i \in 1..26 : UpperCase[i] = c
  THEN LowerCase[CHOOSE i \in 1..26 : UpperCase[i] = c] ELSE c

toUpperCase(c) ==
  IF \E i \in 1..26 : LowerCase[i] = c
  THEN UpperCase[CHOOSE i \in 1..26 : LowerCase[i] = c] ELSE c

\* (Document|Doc|File|Page), in the order the alternation tries them
PrefixTokens == << <<"d","o","c","u","m","e","n","t">>, <<"d","o","c">>,
                   <<"f","i","l","e">>, <<"p","a","g","e">> >>

Digits == <<"0","1","2","3","4","5","6","7","8","9">>
IsDigit(c) == c \in Range(Digits)
IsSpace(c) == c = " "
\* [\s\-_]
IsTokenSep(c) == IsSpace(c) \/ c = "-" \/ c = "_"
\* [\.\-_\s]
IsNumberSep(c) == c = "." \/ c = "-" \/ c = "_" \/ IsSpace(c)

StartsWithToken(s, tok) ==
  /\ Len(s) >= Len(tok)
  /\ \A i \in 1..Len(tok) : toLowerCase(s[i]) = tok[i]

EndsWithToken(s, tok) ==
  /\ Len(s) >= Len(tok)
  /\ \A i \in 1..Len(tok) : toLowerCase(s[Len(s) - Len(tok) + i]) = tok[i]

\* number of leading characters of s that satisfy the class
RECURSIVE LeadRun(_, _, _)
LeadRun(s, i, cls) ==
  IF i > Len(s) \/ ~(s[i] \in cls) THEN i - 1 ELSE LeadRun(s, i + 1, cls)

\* number of trailing characters of s that satisfy the class
RECURSIVE TrailRun(_, _, _)
TrailRun(s, i, cls) ==
  IF i < 1 \/ ~(s[i] \in cls) THEN Len(s) - i ELSE TrailRun(s, i - 1, cls)

DropFirst(s, n) == SubSeq(s, n + 1, Len(s))
DropLast(s, n) == SubSeq(s, 1, Len(s) - n)

TokenSepChars == {" ", "-", "_"}
NumberSepChars == {".", "-", "_", " "}
SpaceChars == {" "}

\* .replace(/^(Document|Doc|File|Page)[\s\-_]*/i, '')
StripLeadingToken(s) ==
  IF \E k \in 1..Len(PrefixTokens) : StartsWithToken(s, PrefixTokens[k])
  THEN LET k == CHOOSE k \in 1..Len(PrefixTokens) :
                  /\ StartsWithToken(s, PrefixTokens[k])
                  /\ \A j \in 1..(k-1) : ~StartsWithToken(s, PrefixTokens[j])
           rest == DropFirst(s, Len(PrefixTokens[k]))
       IN DropFirst(rest, LeadRun(rest, 1, TokenSepChars))
  ELSE s

\* .replace(/[\s\-_]*(Document|Doc|File|Page)$/i, '')
StripTrailingToken(s) ==
  IF \E k \in 1..Len(PrefixTokens) : EndsWithToken(s, PrefixTokens[k])
  THEN LET k == CHOOSE k \in 1..Len(PrefixTokens) : EndsWithToken(s, PrefixTokens[k])
           rest == DropLast(s, Len(PrefixTokens[k]))
       IN DropLast(rest, TrailRun(rest, Len(rest), TokenSepChars))
  ELSE s

\* .replace(/^[0-9]+[\.\-_\s]*/, '')
StripLeadingNumber(s) ==
  LET n == LeadRun(s, 1, Range(Digits))
      rest == DropFirst(s, n)
  IN IF n = 0 THEN s ELSE DropFirst(rest, LeadRun(rest, 1, NumberSepChars))

\* .replace(/[_-]/g, ' ')
ReplaceDashes(s) == [i \in 1..Len(s) |-> IF s[i] \in {"_", "-"} THEN " " ELSE s[i]]

\* .trim()
trim(s) ==
  LET a == DropFirst(s, LeadRun(s, 1, SpaceChars))
  IN DropLast(a, TrailRun(a, Len(a), SpaceChars))

\* .split(' ').map(w => w.charAt(0).toUpperCase() + w.slice(1).toLowerCase()).join(' ')
TitleCase(s) ==
  [i \in 1..Len(s) |->
     IF i = 1 \/ s[i-1] = " " THEN toUpperCase(s[i]) ELSE toLowerCase(s[i])]

Untitled == <<"U","n","t","i","t","l","e","d">>

cleanDocumentName(name) ==
  LET cleaned == TitleCase(trim(ReplaceDashes(StripLeadingNumber(
                   StripTrailingToken(StripLeadingToken(name))))))
  IN IF cleaned # <<>> THEN cleaned ELSE Untitled

\* `${parentNumber}.${levelIndex}` : numbers are sequences of indices,
\* rendered with NumberString
RECURSIVE NumberLevel(_, _, _)
NumberLevel(items, parentNumber, levelIndex) ==
  IF items = <<>> THEN <<>>
  ELSE LET c == Head(items)
           number == Append(parentNumber, levelIndex)
       IN << [id |-> c.id, number |-> number,
              cleanName |-> cleanDocumentName(c.name)] >>
          \o (IF hasChildren(c) THEN NumberLevel(c.sub, number, 1) ELSE <<>>)
          \o NumberLevel(Tail(items), parentNumber, levelIndex + 1)

\* a numbering whose top level starts at 0
assignDocumentNumbers_FromZero(catalogs) == NumberLevel(catalogs, <<>>, 0)

\* the Map id -> {number, cleanName}, as its sequence of set() calls
assignDocumentNumbers(catalogs) == NumberLevel(catalogs, <<>>, 1)

RECURSIVE NumberString(_)
NumberString(number) ==
  IF Len(number) = 1 THEN <<Digits[number[1] + 1]>>
  ELSE <<Digits[number[1] + 1], ".">> \o NumberString(Tail(number))

\* the name numbered by the position among the siblings only
NumberedName_LastIndex(numberInfo) ==
  <<Digits[numberInfo.number[Len(numberInfo.number)] + 1], ".", " ">>
    \o numberInfo.cleanName

\* `${numberInfo.number}. ${numberInfo.cleanName}`
NumberedName(numberInfo) ==
  NumberString(numberInfo.number) \o <<".", " ">> \o numberInfo.cleanName

MdExt == <<".", "m", "d">>
ReadmeName == <<"R","E","A","D","M","E",".","m","d">>

(***************************************************************************)
(* Errors.  A thrown value is an ExportError (typed) or a plain Error.     *)
(***************************************************************************)
NoId == <<>>

ExportError(type, documentId) ==
  [typed |-> TRUE, type |-> type, documentId |-> documentId]

GenericError == [typed |-> FALSE, type |-> "Error", documentId |-> NoId]

\* the value of `raised` while nothing has been thrown
NoError == [typed |-> FALSE, type |-> "nothing", documentId |-> NoId]

ExportResult(success, exported, failed, errs, outputPath) ==
  [success |-> success, exportedCount |-> exported, failedCount |-> failed,
   errors |-> errs, outputPath |-> outputPath]

\* the value of `result` while the call has not resolved
NoResult == ExportResult(FALSE, 0, 0, <<>>, <<>>)

\* the caught value passed on as it is
ToApiError_NoWrap(error) == error

\* error instanceof ExportError ? error : new ExportError(API_ERROR, ...)
ToApiError(error) ==
  IF error.typed THEN error ELSE ExportError("api_error", NoId)

\* error instanceof ExportError ? error : new ExportError(FILE_SYSTEM_ERROR, ...)
ToFileSystemError(error) ==
  IF error.typed THEN error ELSE ExportError("file_system_error", NoId)

\* error types FileService.createDirectory / writeFile can raise
FileErrorTypes == {"file_system_error", "permission_denied", "disk_space_error"}

\* ExportError types QoderApiServiceImpl.isUserLoggedIn can raise itself
LoginErrorTypes == {"qoder_not_available", "api_error", "authentication_failed",
                    "network_error", "timeout_error"}

(***************************************************************************)
(* Inputs of exportDocuments: the catalog trees the host can return, the   *)
(* selections the picker can produce from them, the destinations.          *)
(***************************************************************************)
IdA == <<"a">>
IdB == <<"b">>
IdC == <<"c">>

Statuses == {"completed", "failed"}

Leaf(id, st) == Catalog(id, id, st, FALSE, <<>>)
Parent(id, st, sub) == Catalog(id, id, st, TRUE, sub)

StatusTrees ==
  UNION { { << Parent(IdA, sa, << Leaf(IdB, sb), Leaf(IdC, sc) >>) >>,
            << Parent(IdA, sa, << Leaf(IdB, sb) >>), Leaf(IdC, sc) >>,
            << Parent(IdA, sa, << Parent(IdB, sb, << Leaf(IdC, sc) >>) >>) >> }
          : sa \in Statuses, sb \in Statuses, sc \in Statuses }

\* the same shapes with completed catalogs that all carry one name
NameN == <<"n">>
Named(id, hasSub, sub) == Catalog(id, NameN, "completed", hasSub, sub)

SameNameTrees ==
  { << Named(IdA, TRUE, << Named(IdB, FALSE, <<>>),
                           Named(IdC, FALSE, <<>>) >>) >>,
    << Named(IdA, TRUE, << Named(IdB, FALSE, <<>>) >>),
       Named(IdC, FALSE, <<>>) >>,
    << Named(IdA, TRUE,
             << Named(IdB, TRUE, << Named(IdC, FALSE, <<>>) >>) >>) >> }

OriginalTrees == StatusTrees \cup SameNameTrees

\* DocumentSelector.createQuickPickItems: every catalog, its id replaced
\* by the hierarchy path
RECURSIVE createQuickPickItems(_, _)
createQuickPickItems(catalogs, parentPath) ==
  IF catalogs = <<>> THEN <<>>
  ELSE LET c == Head(catalogs)
           hp == hierarchyPath(parentPath, c.id)
       IN << [c EXCEPT !.id = hp] >>
          \o (IF hasChildren(c) THEN createQuickPickItems(c.sub, hp) ELSE <<>>)
          \o createQuickPickItems(Tail(catalogs), parentPath)

\* sequences of at most n distinct elements of the set S
RECURSIVE Selections(_, _)
Selections(S, n) ==
  IF n = 0 THEN { <<>> }
  ELSE LET shorter == Selections(S, n - 1)
       IN shorter \cup { Append(q, x) : q \in { r \in shorter : Len(r) = n - 1 },
                                        x \in S }

Distinct(q) == \A i, j \in 1..Len(q) : i # j => q[i] # q[j]

SelectionsOf(tree) ==
  { q \in Selections(Range(createQuickPickItems(tree, <<>>)), MaxSelected) :
      Distinct(q) }

DestOut == <<"o","u","t">>
Destinations == { <<>>, <<" ">>, DestOut }

Structures == {"flat", "tree"}

\* what operation() or a processor throws: an ExportError with its type,
\* a plain Error, or a value that is not an Error
Thrown(kind, type, at) == [kind |-> kind, type |-> type, at |-> at]

\* the value of lastError (null) while nothing has been thrown
NoThrown == Thrown("none", "none", 0)

(***************************************************************************)
(* State.                                                                  *)
(***************************************************************************)
VARIABLES
  qoderApiService,    \* MarkdownExporter.qoderApiService: "configured" or None
  isExporting,        \* ExportService.isExporting
  cancellationToken,  \* ExportService.cancellationToken: "token" or None
  cancelRequested,    \* token.isCancellationRequested
  cancelPoint,        \* where the call stood when cancellation was requested
  pc,                 \* position of the exportDocuments call
  documents, destination, exportStructure,   \* arguments
  hasOriginalCatalogs, originalCatalogs,     \* the optional last argument
  sinkThrowAt,        \* the progress callback throws on its n-th call (0: never)
  validDocuments, hierarchicalDocuments,
  errors, exportedCount, failedCount,        \* locals of exportDocuments
  raised, raisedAt,   \* the value caught by exportDocuments' catch, its origin
  result, outcome,    \* the ExportResult the call resolved with, and the path
  numberMap, completedCatalogs, i, stack, currentProgress,
  xErrors, xExported, xFailed, xResult,      \* locals of the layout strategy
  xAborted,           \* exportCatalogs went through its catch block
  dirs, files,        \* the filesystem
  events,             \* what the progress sink received
  availChecks, authChecks,   \* calls of isQoderAvailable / isUserLoggedIn
  setupFault,         \* the fault the host or the filesystem answered with
  mkdirCalls, fetches, writes,   \* createDirectory / getWikiContent / writeFile
  attempted           \* the catalogs that entered a strategy's try block

\* GracefulDegradation.retryWithBackoff: one call
VARIABLES
  rPc,                \* "idle", "loop", "returned" or "thrown"
  maxRetries, backoffMs,     \* arguments
  attempt,            \* the loop variable
  lastError,          \* the local lastError
  invocations,        \* calls of operation()
  outcomes,           \* how each call of operation() ended
  waits,              \* the delays waited, in order
  rValue, rRaised     \* what the call resolved or rejected with

\* GracefulDegradation.processBatchWithDegradation: one call
VARIABLES
  bPc,                \* "idle", "running", "returned" or "rejected"
  bItems, bFails,     \* the items; the indexes whose processor throws
  continueOnError, maxConcurrent, hasProgressCallback,   \* options
  bI,                 \* the loop variable i
  inFlight,           \* indexes of the window whose promise is not settled
  successful, failed, \* the two result arrays
  bProgress,          \* what progressCallback received
  bRaised             \* what the call rejected with

\* a second exportDocuments call on the same ExportService instance
VARIABLES
  call2               \* "idle", "running" or "done"

\* the functions of the codec and of the numbering engine, called on their
\* own: one call, and for reconstructHierarchy the position in its loops
VARIABLES
  fPc,                \* which function was called, and how far it is
  fArgs,              \* its arguments
  fValue,             \* what it returned, one entry per call
  rootDocuments,      \* reconstructHierarchy: the output tree
  currentParent,      \* the array currentParent refers to, as an index path
  selectedIndex,      \* position of selectedDoc in selectedDocuments
  segmentIndex        \* the loop variable i, counted from 1

svcVars == <<qoderApiService, isExporting, cancellationToken>>
envVars == <<cancelRequested, cancelPoint>>
argVars == <<documents, destination, exportStructure, hasOriginalCatalogs,
             originalCatalogs, sinkThrowAt>>
prepVars == <<validDocuments, hierarchicalDocuments>>
cntVars == <<errors, exportedCount, failedCount>>
excVars == <<raised, raisedAt>>
resVars == <<result, outcome>>
xVars   == <<numberMap, completedCatalogs, i, stack, currentProgress,
             xErrors, xExported, xFailed, xResult, xAborted>>
fsVars  == <<dirs, files>>
ioVars  == <<availChecks, authChecks, setupFault, mkdirCalls, fetches, writes,
             attempted>>

retryVars == <<rPc, maxRetries, backoffMs, attempt, lastError, invocations,
               outcomes, waits, rValue, rRaised>>
batchVars == <<bPc, bItems, bFails, continueOnError, maxConcurrent,
               hasProgressCallback, bI, inFlight, successful, failed,
               bProgress, bRaised>>
gdVars == <<retryVars, batchVars>>

exportVars == <<svcVars, envVars, pc, argVars, prepVars, cntVars, excVars,
                resVars, xVars, fsVars, events, ioVars>>

overlapVars == <<call2>>
fnVars == <<fPc, fArgs, fValue, rootDocuments, currentParent, selectedIndex,
            segmentIndex>>

\* what the actions of exportDocuments leave alone
otherVars == <<gdVars, fnVars, overlapVars>>
\* what the actions of GracefulDegradation leave alone, besides each other
nonGdVars == <<exportVars, fnVars, overlapVars>>

vars == <<exportVars, gdVars, fnVars, overlapVars>>

Init ==
  /\ qoderApiService \in {"configured", None}
  /\ isExporting = FALSE
  /\ cancellationToken = None
  /\ cancelRequested = FALSE
  /\ cancelPoint = [pc |-> None, attempted |-> 0, pending |-> FALSE]
  /\ pc = "idle"
  /\ documents = <<>> /\ destination = <<>> /\ exportStructure = "flat"
  /\ hasOriginalCatalogs = FALSE /\ originalCatalogs = <<>> /\ sinkThrowAt = 0
  /\ validDocuments = <<>> /\ hierarchicalDocuments = <<>>
  /\ errors = <<>> /\ exportedCount = 0 /\ failedCount = 0
  /\ raised = NoError /\ raisedAt = None
  /\ result = NoResult /\ outcome = None
  /\ numberMap = <<>> /\ completedCatalogs = <<>> /\ i = 0 /\ stack = <<>>
  /\ currentProgress = [completed |-> 0, total |-> 0]
  /\ xErrors = <<>> /\ xExported = 0 /\ xFailed = 0 /\ xResult = NoResult
  /\ xAborted = FALSE
  /\ dirs = {} /\ files = {}
  /\ events = <<>>
  /\ availChecks = 0 /\ authChecks = 0 /\ setupFault = NoError
  /\ mkdirCalls = <<>> /\ fetches = <<>> /\ writes = <<>> /\ attempted = <<>>
  /\ rPc = "idle" /\ maxRetries = 0 /\ backoffMs = 0 /\ attempt = 0
  /\ lastError = NoThrown /\ invocations = 0 /\ outcomes = <<>>
  /\ waits = <<>>
  /\ rValue = None /\ rRaised = NoThrown
  /\ bPc = "idle" /\ bItems = <<>> /\ bFails = {}
  /\ continueOnError = TRUE /\ maxConcurrent = 0
  /\ hasProgressCallback = FALSE /\ bI = 0 /\ inFlight = {}
  /\ successful = <<>> /\ failed = <<>> /\ bProgress = <<>>
  /\ bRaised = NoThrown
  /\ call2 = "idle"
  /\ fPc = "idle" /\ fArgs = <<>> /\ fValue = <<>>
  /\ rootDocuments = <<>> /\ currentParent = <<>>
  /\ selectedIndex = 0 /\ segmentIndex = 0

(***************************************************************************)
(* Environment: the user may request cancellation at any moment of a call. *)
(***************************************************************************)
\* a layout strategy is running and has a completed catalog left to process
NodesPending ==
  \/ pc = "x_flat" /\ i < Len(completedCatalogs)
  \/ pc = "x_tree" /\ \E k \in 1..Len(stack) :
                        stack[k].kind = "visit" /\ IsCompleted(stack[k].catalog)

RequestCancel ==
  /\ pc \notin {"idle", "done"}
  /\ ~cancelRequested
  /\ cancelRequested' = TRUE
  /\ cancelPoint' = [pc |-> pc, attempted |-> Len(attempted),
                      pending |-> NodesPending]
  /\ UNCHANGED <<svcVars, pc, argVars, prepVars, cntVars, excVars, resVars,
                 xVars, fsVars, events, ioVars>>
  /\ UNCHANGED otherVars

(***************************************************************************)
(* Progress sink.  The callback is invoked with the event; when it is the  *)
(* sinkThrowAt-th invocation it throws a plain Error.                      *)
(***************************************************************************)
ProgressInfo(kind, id, currentDocument, completed, total, percentage) ==
  [kind |-> kind, id |-> id, currentDocument |-> currentDocument,
   completed |-> completed, total |-> total, percentage |-> percentage]

SinkThrows == sinkThrowAt = Len(events) + 1

\* Math.round((completed / total) * 100)
Percentage(completed, total) == (200 * completed + total) \div (2 * total)

(***************************************************************************)
(* Filesystem adapter.                                                     *)
(***************************************************************************)
Prefixes(path) == { SubSeq(path, 1, n) : n \in 1..Len(path) }

\* fs.mkdir(dirPath, {recursive: true})
MkdirP(ds, dirPath) == ds \cup Prefixes(dirPath)

DirName(path) == SubSeq(path, 1, Len(path) - 1)

\* fs.writeFile(filePath, content): replaces what the path held
WriteFile(fs, filePath, id, body) ==
  { f \in fs : f.path # filePath }
    \cup { [path |-> filePath, id |-> id, body |-> body] }

(***************************************************************************)
(* ExportService.exportDocuments, one action per step between awaits.      *)
(***************************************************************************)
\* a return statement together with the finally block (lines 258-261)
Return(r, path) ==
  /\ result' = r
  /\ outcome' = path
  /\ pc' = "done"
  /\ isExporting' = FALSE
  /\ cancellationToken' = None
  /\ UNCHANGED qoderApiService

\* a throw inside the try block: control moves to the catch block
Throw(e) ==
  /\ raised' = e
  /\ raisedAt' = pc
  /\ pc' = "catch"

\* this.cancellationToken?.isCancellationRequested
IsCancellationRequested == cancellationToken # None /\ cancelRequested

\* lines 61-74: entry
ExportDocumentsWith(trees, sinkChoices) ==
  /\ pc = "idle"
  /\ \E tree \in trees, dest \in Destinations, st \in Structures,
        withOriginal \in BOOLEAN, sink \in sinkChoices :
       \E docs \in SelectionsOf(tree) :
         /\ documents' = docs
         /\ destination' = dest
         /\ exportStructure' = st
         /\ hasOriginalCatalogs' = withOriginal
         /\ originalCatalogs' = IF withOriginal THEN tree ELSE <<>>
         /\ sinkThrowAt' = sink
  /\ cancellationToken' = "token"
  /\ isExporting' = TRUE
  /\ errors' = <<>> /\ exportedCount' = 0 /\ failedCount' = 0
  /\ pc' = "validate"
  /\ UNCHANGED <<qoderApiService, envVars, prepVars, excVars, resVars, xVars,
                 fsVars, events, ioVars>>
  /\ UNCHANGED otherVars

ExportDocumentsFrom(sinkChoices) ==
  ExportDocumentsWith(OriginalTrees, sinkChoices)

\* the progress callback of the extension never throws
ExportDocuments == ExportDocumentsFrom({0})

\* a caller-supplied progress callback may throw
ExportDocumentsThrowingSink == ExportDocumentsFrom(0..MaxSinkCall)

\* input validation that tests !destination without trim()
ValidateInputs_NoTrim ==
  /\ pc = "validate"
  /\ IF Len(documents) = 0
     THEN Throw(ExportError("api_error", NoId))
     ELSE IF destination = <<>>
          THEN Throw(ExportError("file_system_error", NoId))
          ELSE pc' = "availability" /\ UNCHANGED excVars
  /\ UNCHANGED <<svcVars, envVars, argVars, prepVars, cntVars, resVars, xVars,
                 fsVars, events, ioVars>>
  /\ UNCHANGED otherVars

\* lines 86-103: input validation
ValidateInputs ==
  /\ pc = "validate"
  /\ IF Len(documents) = 0
     THEN Throw(ExportError("api_error", NoId))
     ELSE IF trim(destination) = <<>>
          THEN Throw(ExportError("file_system_error", NoId))
          ELSE pc' = "availability" /\ UNCHANGED excVars
  /\ UNCHANGED <<svcVars, envVars, argVars, prepVars, cntVars, resVars, xVars,
                 fsVars, events, ioVars>>
  /\ UNCHANGED otherVars

\* lines 106, 268-283: validateQoderAvailability
validateQoderAvailability ==
  /\ pc = "availability"
  /\ availChecks' = availChecks + 1
  /\ \E available \in BOOLEAN :
       IF ~available
       THEN /\ setupFault' = ExportError("qoder_not_available", NoId)
            /\ Throw(setupFault')
            /\ UNCHANGED authChecks
       ELSE /\ authChecks' = authChecks + 1
            /\ \/ pc' = "filter" /\ UNCHANGED <<excVars, setupFault>>
               \* isUserLoggedIn returned false, or threw an ExportError
               \/ \E t \in LoginErrorTypes :
                    /\ setupFault' = ExportError(t, NoId)
                    /\ Throw(setupFault')
  /\ UNCHANGED <<svcVars, envVars, argVars, prepVars, cntVars, resVars, xVars,
                 fsVars, events, mkdirCalls, fetches, writes, attempted>>
  /\ UNCHANGED otherVars

\* the completed filter without the early return
FilterCompleted_NoEarlyReturn ==
  /\ pc = "filter"
  /\ validDocuments' = SelectSeq(documents, IsCompleted)
  /\ pc' = "prepare"
  /\ UNCHANGED <<svcVars, resVars, envVars, argVars, hierarchicalDocuments,
                 cntVars, excVars, xVars, fsVars, events, ioVars>>
  /\ UNCHANGED otherVars

\* lines 110-125: the completed filter and the vacuous success
FilterCompleted ==
  /\ pc = "filter"
  /\ LET valid == SelectSeq(documents, IsCompleted)
     IN /\ validDocuments' = valid
        /\ IF Len(valid) = 0
           THEN Return(ExportResult(TRUE, 0, 0, <<>>, destination), "vacuous")
           ELSE /\ pc' = "prepare"
                /\ UNCHANGED <<svcVars, resVars>>
  /\ UNCHANGED <<envVars, argVars, hierarchicalDocuments, cntVars, excVars,
                 xVars, fsVars, events, ioVars>>
  /\ UNCHANGED otherVars

\* lines 128-136: first progress update, then checkCancellation (515-522)
PrepareExport ==
  /\ pc = "prepare"
  /\ events' = Append(events, ProgressInfo("prepare", NoId,
                 <<"Preparing export...">>, 0, Len(validDocuments), 0))
  /\ IF SinkThrows THEN Throw(GenericError)
     ELSE IF IsCancellationRequested
          THEN Throw(ExportError("user_cancelled", NoId))
          ELSE pc' = "mkdir" /\ UNCHANGED excVars
  /\ UNCHANGED <<svcVars, envVars, argVars, prepVars, cntVars, resVars, xVars,
                 fsVars, ioVars>>
  /\ UNCHANGED otherVars

\* createDirectory whose failure is swallowed
CreateDestination_IgnoresFailure ==
  /\ pc = "mkdir"
  /\ mkdirCalls' = Append(mkdirCalls, <<destination>>)
  /\ \/ /\ dirs' = MkdirP(dirs, <<destination>>)
        /\ UNCHANGED setupFault
     \/ /\ \E t \in FileErrorTypes : setupFault' = ExportError(t, NoId)
        /\ UNCHANGED dirs
  /\ pc' = "layout"
  /\ UNCHANGED <<svcVars, envVars, argVars, prepVars, cntVars, excVars,
                 resVars, xVars, files, events, availChecks, authChecks,
                 fetches, writes, attempted>>
  /\ UNCHANGED otherVars

\* line 139: fileService.createDirectory(destination)
CreateDestination ==
  /\ pc = "mkdir"
  /\ mkdirCalls' = Append(mkdirCalls, <<destination>>)
  /\ \/ /\ dirs' = MkdirP(dirs, <<destination>>)
        /\ pc' = "layout"
        /\ UNCHANGED <<excVars, setupFault>>
     \/ /\ \E t \in FileErrorTypes :
             /\ setupFault' = ExportError(t, NoId)
             /\ Throw(setupFault')
        /\ UNCHANGED dirs
  /\ UNCHANGED <<svcVars, envVars, argVars, prepVars, cntVars, resVars, xVars,
                 files, events, availChecks, authChecks, fetches, writes,
                 attempted>>
  /\ UNCHANGED otherVars

\* lines 142-160: reconstruct the hierarchy and call exportCatalogs
StartLayout ==
  /\ pc = "layout"
  /\ hierarchicalDocuments' =
       IF hasOriginalCatalogs
       THEN reconstructHierarchy(originalCatalogs, validDocuments)
       ELSE validDocuments
  /\ pc' = "x_mkdir"
  /\ UNCHANGED <<svcVars, envVars, argVars, validDocuments, cntVars, excVars,
                 resVars, xVars, fsVars, events, ioVars>>
  /\ UNCHANGED otherVars

(***************************************************************************)
(* MarkdownExporter.exportCatalogs and the two layout strategies.          *)
(***************************************************************************)
\* a lookup that answers with the first entry whatever the id
NumberInfo_First(id) == numberMap[1]

\* numberMap?.get(catalog.id)
NumberInfo(id) == MapGet(numberMap, id)

\* the content source of createContentFlat / createContentTree
FetchesContent(catalog) == qoderApiService # None /\ IsCompleted(catalog)

\* createReadmeContent only fetches for a catalog without sub-catalogs
ReadmeFetchesContent(catalog) ==
  qoderApiService # None /\ IsCompleted(catalog) /\ ~hasChildren(catalog)

\* what one pass through a strategy's try block did
Attempt(catalog, path, dir, fetch, fetchOk, writeOk) ==
  [id |-> catalog.id, path |-> path, dir |-> dir,
   fetch |-> IF ~fetch THEN "none" ELSE IF fetchOk THEN "ok" ELSE "failed",
   write |-> IF writeOk THEN "ok" ELSE "failed"]

\* lines 344-363: the catch block of exportCatalogs; its exportedCount and
\* errors are the locals of exportCatalogs, which nothing updates
ExporterCatch(error) ==
  /\ xResult' = ExportResult(FALSE, 0,
                  Len(flattenCatalogHierarchy(hierarchicalDocuments)) - 0,
                  <<ToFileSystemError(error)>>, destination)
  /\ xAborted' = TRUE
  /\ pc' = "aggregate"

\* the items of a level visited last to first
TreeItems_Reversed(items, basePath) ==
  [k \in 1..Len(items) |->
     [kind |-> "visit", catalog |-> items[Len(items) + 1 - k],
      basePath |-> basePath]]

\* for (const catalog of items) with the basePath of that processLevel call
TreeItems(items, basePath) ==
  [k \in 1..Len(items) |->
     [kind |-> "visit", catalog |-> items[k], basePath |-> basePath]]

\* lines 324-342: createDirectory, assignDocumentNumbers, strategy set-up
\* (lines 381-387 for FLAT, 465-529 for TREE)
ExporterCreateDirectory ==
  /\ pc = "x_mkdir"
  /\ mkdirCalls' = Append(mkdirCalls, <<destination>>)
  /\ \/ /\ dirs' = MkdirP(dirs, <<destination>>)
        /\ numberMap' = assignDocumentNumbers(hierarchicalDocuments)
        /\ xErrors' = <<>> /\ xExported' = 0 /\ xFailed' = 0
        /\ LET completed == SelectSeq(
                  flattenCatalogHierarchy(hierarchicalDocuments), IsCompleted)
           IN IF exportStructure = "flat"
              THEN /\ completedCatalogs' = completed
                   /\ i' = 0
                   /\ pc' = "x_flat"
                   /\ UNCHANGED <<stack, currentProgress>>
              ELSE /\ currentProgress' = [completed |-> 0,
                                          total |-> Len(completed)]
                   /\ stack' = TreeItems(hierarchicalDocuments, <<destination>>)
                   /\ pc' = "x_tree"
                   /\ UNCHANGED <<completedCatalogs, i>>
        /\ UNCHANGED <<xResult, xAborted, setupFault>>
     \/ /\ \E t \in FileErrorTypes :
             /\ setupFault' = ExportError(t, NoId)
             /\ ExporterCatch(setupFault')
        /\ UNCHANGED <<dirs, numberMap, completedCatalogs, i, stack,
                       currentProgress, xErrors, xExported, xFailed>>
  /\ UNCHANGED <<svcVars, envVars, argVars, prepVars, cntVars, excVars,
                 resVars, files, events, availChecks, authChecks, fetches,
                 writes, attempted>>
  /\ UNCHANGED otherVars

\* lines 389-427: one iteration of the FLAT loop
FlatNode ==
  /\ pc = "x_flat"
  /\ i < Len(completedCatalogs)
  /\ LET catalog  == completedCatalogs[i + 1]
         total    == Len(completedCatalogs)
         filename == NumberedName(NumberInfo(catalog.id)) \o MdExt
         filePath == <<destination, filename>>
         fetch    == FetchesContent(catalog)
     IN /\ events' = Append(events, ProgressInfo("node", catalog.id,
                       catalog.name, i, total, Percentage(i, total)))
        /\ IF SinkThrows
           THEN /\ ExporterCatch(GenericError)
                /\ UNCHANGED <<i, xErrors, xExported, xFailed, fsVars,
                               fetches, writes, attempted>>
           ELSE /\ i' = i + 1
                /\ fetches' = IF fetch
                     THEN Append(fetches, getOriginalDocumentId(catalog.id))
                     ELSE fetches
                /\ writes' = Append(writes, filePath)
                /\ \E fetchOk \in BOOLEAN, writeOk \in BOOLEAN :
                     /\ (~fetch => fetchOk)
                     /\ attempted' = Append(attempted,
                          Attempt(catalog, filePath, FALSE, fetch, fetchOk,
                                  writeOk))
                     /\ IF writeOk
                        THEN /\ dirs' = MkdirP(dirs, DirName(filePath))
                             /\ files' = WriteFile(files, filePath, catalog.id,
                                  IF fetch /\ fetchOk THEN "fetched"
                                  ELSE "placeholder")
                             /\ xExported' = xExported + 1
                             /\ UNCHANGED <<xFailed, xErrors>>
                        ELSE /\ xFailed' = xFailed + 1
                             /\ xErrors' = Append(xErrors,
                                  ExportError("conversion_error", catalog.id))
                             /\ UNCHANGED <<xExported, fsVars>>
                /\ UNCHANGED <<pc, xResult, xAborted>>
  /\ UNCHANGED <<svcVars, envVars, argVars, prepVars, cntVars, excVars,
                 resVars, numberMap, completedCatalogs, stack, currentProgress,
                 availChecks, authChecks, setupFault, mkdirCalls>>
  /\ UNCHANGED otherVars

\* lines 429-446: final progress update and result of the FLAT strategy
FlatFinish ==
  /\ pc = "x_flat"
  /\ i = Len(completedCatalogs)
  /\ events' = Append(events, ProgressInfo("final", NoId, <<"Export complete">>,
                 Len(completedCatalogs), Len(completedCatalogs), 100))
  /\ IF SinkThrows
     THEN ExporterCatch(GenericError)
     ELSE /\ xResult' = ExportResult(Len(xErrors) = 0, xExported, xFailed,
                                     xErrors, destination)
          /\ pc' = "aggregate"
          /\ UNCHANGED xAborted
  /\ UNCHANGED <<svcVars, envVars, argVars, prepVars, cntVars, excVars,
                 resVars, numberMap, completedCatalogs, i, stack,
                 currentProgress, xErrors, xExported, xFailed, fsVars, ioVars>>
  /\ UNCHANGED otherVars

\* lines 471-474: a catalog that is not completed is passed over, and with
\* it the recursion into its sub-catalogs
TreeSkip ==
  /\ pc = "x_tree"
  /\ stack # <<>>
  /\ Head(stack).kind = "visit"
  /\ ~IsCompleted(Head(stack).catalog)
  /\ stack' = Tail(stack)
  /\ UNCHANGED <<svcVars, envVars, pc, argVars, prepVars, cntVars, excVars,
                 resVars, numberMap, completedCatalogs, i, currentProgress,
                 xErrors, xExported, xFailed, xResult, xAborted, fsVars,
                 events, ioVars>>
  /\ UNCHANGED otherVars

\* the catch block without failedCount++
TreeFailure_Uncounted(catalog) ==
  /\ currentProgress' = [currentProgress EXCEPT !.completed = @ + 1]
  /\ xErrors' = Append(xErrors, ExportError("conversion_error", catalog.id))
  /\ stack' = Tail(stack)
  /\ UNCHANGED <<xFailed, xExported, files>>

\* lines 515-524: the catch block of one processLevel iteration
TreeFailure(catalog) ==
  /\ xFailed' = xFailed + 1
  /\ currentProgress' = [currentProgress EXCEPT !.completed = @ + 1]
  /\ xErrors' = Append(xErrors, ExportError("conversion_error", catalog.id))
  /\ stack' = Tail(stack)
  /\ UNCHANGED <<xExported, files>>

\* lines 495-504: a catalog with sub-catalogs becomes a folder with README.md
TreeDirectory(catalog, basePath, folderPath) ==
  LET readmePath == Append(folderPath, ReadmeName)
      fetch == ReadmeFetchesContent(catalog)
  IN /\ mkdirCalls' = Append(mkdirCalls, folderPath)
     /\ \E mkdirOk \in BOOLEAN, fetchOk \in BOOLEAN, writeOk \in BOOLEAN :
          /\ (~mkdirOk => fetchOk /\ writeOk)
          /\ (~fetch => fetchOk)
          /\ dirs' = IF mkdirOk THEN MkdirP(dirs, folderPath) ELSE dirs
          /\ fetches' = IF mkdirOk /\ fetch
               THEN Append(fetches, getOriginalDocumentId(catalog.id))
               ELSE fetches
          /\ writes' = IF mkdirOk THEN Append(writes, readmePath) ELSE writes
          /\ attempted' = Append(attempted,
               Attempt(catalog, readmePath, TRUE, mkdirOk /\ fetch, fetchOk,
                       mkdirOk /\ writeOk))
          /\ IF mkdirOk /\ writeOk
             THEN /\ files' = WriteFile(files, readmePath, catalog.id,
                       IF fetch /\ fetchOk THEN "fetched" ELSE "readme")
                  \* await processLevel(catalog.subCatalog, folderPath, ...)
                  /\ stack' = TreeItems(catalog.sub, folderPath)
                       \o << [kind |-> "return", catalog |-> catalog,
                              basePath |-> basePath] >>
                       \o Tail(stack)
                  /\ UNCHANGED <<xExported, xFailed, xErrors, currentProgress>>
             ELSE TreeFailure(catalog)

\* lines 505-514: a catalog without sub-catalogs becomes one .md file
TreeLeaf(catalog, basePath, folderName) ==
  LET filePath == Append(basePath, folderName \o MdExt)
      fetch == FetchesContent(catalog)
  IN /\ UNCHANGED mkdirCalls
     /\ fetches' = IF fetch
          THEN Append(fetches, getOriginalDocumentId(catalog.id))
          ELSE fetches
     /\ writes' = Append(writes, filePath)
     /\ \E fetchOk \in BOOLEAN, writeOk \in BOOLEAN :
          /\ (~fetch => fetchOk)
          /\ attempted' = Append(attempted,
               Attempt(catalog, filePath, FALSE, fetch, fetchOk, writeOk))
          /\ IF writeOk
             THEN /\ dirs' = MkdirP(dirs, DirName(filePath))
                  /\ files' = WriteFile(files, filePath, catalog.id,
                       IF fetch /\ fetchOk THEN "fetched" ELSE "placeholder")
                  /\ xExported' = xExported + 1
                  /\ currentProgress' =
                       [currentProgress EXCEPT !.completed = @ + 1]
                  /\ stack' = Tail(stack)
                  /\ UNCHANGED <<xFailed, xErrors>>
             ELSE /\ TreeFailure(catalog)
                  /\ UNCHANGED dirs

\* lines 476-524: one completed catalog of processLevel, up to the
\* recursive call (directory) or to the end of the iteration (leaf)
TreeNode ==
  /\ pc = "x_tree"
  /\ stack # <<>>
  /\ Head(stack).kind = "visit"
  /\ IsCompleted(Head(stack).catalog)
  /\ LET catalog    == Head(stack).catalog
         basePath   == Head(stack).basePath
         folderName == NumberedName(NumberInfo(catalog.id))
         folderPath == Append(basePath, folderName)
     IN /\ events' = Append(events, ProgressInfo("node", catalog.id,
                       catalog.name, currentProgress.completed,
                       currentProgress.total,
                       Percentage(currentProgress.completed,
                                  currentProgress.total)))
        /\ IF SinkThrows
           THEN /\ ExporterCatch(GenericError)
                /\ UNCHANGED <<stack, currentProgress, xErrors, xExported,
                               xFailed, fsVars, mkdirCalls, fetches, writes,
                               attempted>>
           ELSE /\ UNCHANGED <<pc, xResult, xAborted>>
                /\ IF hasChildren(catalog)
                   THEN TreeDirectory(catalog, basePath, folderPath)
                   ELSE TreeLeaf(catalog, basePath, folderName)
  /\ UNCHANGED <<svcVars, envVars, argVars, prepVars, cntVars, excVars,
                 resVars, numberMap, completedCatalogs, i, availChecks,
                 authChecks, setupFault>>
  /\ UNCHANGED otherVars

\* lines 513-514 for a folder: reached when processLevel(subCatalog) returned
TreeReturn ==
  /\ pc = "x_tree"
  /\ stack # <<>>
  /\ Head(stack).kind = "return"
  /\ xExported' = xExported + 1
  /\ currentProgress' = [currentProgress EXCEPT !.completed = @ + 1]
  /\ stack' = Tail(stack)
  /\ UNCHANGED <<svcVars, envVars, pc, argVars, prepVars, cntVars, excVars,
                 resVars, numberMap, completedCatalogs, i, xErrors, xFailed,
                 xResult, xAborted, fsVars, events, ioVars>>
  /\ UNCHANGED otherVars

\* lines 531-548: final progress update and result of the TREE strategy
TreeFinish ==
  /\ pc = "x_tree"
  /\ stack = <<>>
  /\ events' = Append(events, ProgressInfo("final", NoId, <<"Export complete">>,
                 currentProgress.total, currentProgress.total, 100))
  /\ IF SinkThrows
     THEN ExporterCatch(GenericError)
     ELSE /\ xResult' = ExportResult(Len(xErrors) = 0, xExported, xFailed,
                                     xErrors, destination)
          /\ pc' = "aggregate"
          /\ UNCHANGED xAborted
  /\ UNCHANGED <<svcVars, envVars, argVars, prepVars, cntVars, excVars,
                 resVars, numberMap, completedCatalogs, i, stack,
                 currentProgress, xErrors, xExported, xFailed, fsVars, ioVars>>
  /\ UNCHANGED otherVars

\* a cleanup that removes what lies under the destination
performCleanup_Deletes(fs, dest) == { f \in fs : f.path[1] # dest }

\* ExportService.performCleanup: looks at the destination, deletes nothing
performCleanup(fs, dest) == fs

\* lines 162-204: aggregation, final progress update, normal return
AggregateResults ==
  /\ pc = "aggregate"
  /\ exportedCount' = xResult.exportedCount
  /\ failedCount' = xResult.failedCount
  /\ errors' = errors \o xResult.errors
  /\ events' = Append(events, ProgressInfo("complete", NoId,
                 <<"Export complete">>, Len(validDocuments),
                 Len(validDocuments), 100))
  /\ IF SinkThrows
     THEN /\ Throw(GenericError)
          /\ UNCHANGED <<svcVars, resVars>>
     ELSE /\ Return(ExportResult(Len(errors') = 0, exportedCount',
                                 failedCount', errors', destination), "normal")
          /\ UNCHANGED excVars
  /\ UNCHANGED <<envVars, argVars, prepVars, xVars, fsVars, ioVars>>
  /\ UNCHANGED otherVars

\* a catch block without the cancellation branch
CatchError_ReportsFault ==
  /\ pc = "catch"
  /\ files' = performCleanup(files, destination)
  /\ Return(ExportResult(FALSE, exportedCount,
                         Len(documents) - exportedCount,
                         <<ToApiError(raised)>> \o errors, destination),
            "failed")
  /\ UNCHANGED <<envVars, argVars, prepVars, cntVars, excVars, xVars, dirs,
                 events, ioVars>>
  /\ UNCHANGED otherVars

\* lines 206-262: the catch block (cancellation branch first) and finally
CatchError ==
  /\ pc = "catch"
  /\ files' = performCleanup(files, destination)
  /\ IF IsCancellationRequested
     THEN Return(ExportResult(FALSE, exportedCount,
                              Len(documents) - exportedCount,
                              <<ExportError("user_cancelled", NoId)>>,
                              destination), "cancelled")
     ELSE Return(ExportResult(FALSE, exportedCount,
                              Len(documents) - exportedCount,
                              <<ToApiError(raised)>> \o errors, destination),
                 "failed")
  /\ UNCHANGED <<envVars, argVars, prepVars, cntVars, excVars, xVars, dirs,
                 events, ioVars>>
  /\ UNCHANGED otherVars

Step ==
  \/ RequestCancel
  \/ ValidateInputs
  \/ validateQoderAvailability
  \/ FilterCompleted
  \/ PrepareExport
  \/ CreateDestination
  \/ StartLayout
  \/ ExporterCreateDirectory
  \/ FlatNode
  \/ FlatFinish
  \/ TreeSkip
  \/ TreeNode
  \/ TreeReturn
  \/ TreeFinish
  \/ AggregateResults
  \/ CatchError

Next == ExportDocuments \/ Step

Spec == Init /\ [][Next]_vars

NextThrowingSink == ExportDocumentsThrowingSink \/ Step

SpecThrowingSink == Init /\ [][NextThrowingSink]_vars

(***************************************************************************)
(* Two exportDocuments calls on one ExportService instance.  Nothing in    *)
(* exportDocuments refuses a call while another one is running.  The call  *)
(* above is followed step by step; the second call is given no             *)
(* cancellation token and is followed through what it does to the fields   *)
(* of the service: its entry and its finally block.                        *)
(***************************************************************************)
OverlapTrees ==
  { << Parent(IdA, "completed", << Leaf(IdB, sb), Leaf(IdC, "completed") >>) >>
      : sb \in Statuses }

ExportDocumentsOverlapped == ExportDocumentsWith(OverlapTrees, {0})

callVars == <<qoderApiService, envVars, pc, argVars, prepVars, cntVars,
              excVars, resVars, xVars, fsVars, events, ioVars>>

\* lines 61-70 of the second call: this.cancellationToken = undefined
SecondCallEnters ==
  /\ call2 = "idle"
  /\ cancellationToken' = None
  /\ isExporting' = TRUE
  /\ call2' = "running"
  /\ UNCHANGED <<callVars, gdVars, fnVars>>

\* lines 258-261 of the second call: its finally block
SecondCallResolves ==
  /\ call2 = "running"
  /\ isExporting' = FALSE
  /\ cancellationToken' = None
  /\ call2' = "done"
  /\ UNCHANGED <<callVars, gdVars, fnVars>>

NextOverlap ==
  \/ ExportDocumentsOverlapped
  \/ Step
  \/ SecondCallEnters
  \/ SecondCallResolves

SpecOverlap == Init /\ [][NextOverlap]_vars

(***************************************************************************)
(* GracefulDegradation.retryWithBackoff.                                   *)
(***************************************************************************)
Min(a, b) == IF a <= b THEN a ELSE b

RECURSIVE Pow2(_)
Pow2(n) == IF n = 0 THEN 1 ELSE 2 * Pow2(n - 1)

NonRetryableErrors ==
  {"qoder_not_available", "authentication_failed", "user_cancelled",
   "document_not_found", "permission_denied", "disk_space_error",
   "validation_error", "file_system_error"}

\* a policy that retries whatever the error type
shouldNotRetry_Never(errorType) == errorType \in {}

shouldNotRetry(errorType) == errorType \in NonRetryableErrors

\* the rate-limit delay without its ceiling
calculateRateLimitDelay_Uncapped(n) == 5000 * Pow2(n - 1)

calculateRateLimitDelay(n) == Min(5000 * Pow2(n - 1), 60000)

\* a backoff that does not grow
BackoffDelay_Constant(ms, n) == Min(ms, 10000)

\* Math.min(backoffMs * Math.pow(2, attempt - 1), 10000)
BackoffDelay(ms, n) == Min(ms * Pow2(n - 1), 10000)

\* error instanceof Error ? error : new Error(String(error))
ToError(e) ==
  IF e.kind = "value" THEN Thrown("error", "String(value)", e.at) ELSE e

ExportErrorTypes ==
  NonRetryableErrors \cup {"rate_limit_error", "api_error", "network_error"}

\* what a call of operation() at attempt n can throw
ThrownValues(n) ==
  { Thrown("export_error", t, n) : t \in ExportErrorTypes }
    \cup { Thrown("error", "Error", n), Thrown("value", "string", n) }

Succeeded(n) == Thrown("success", "success", n)

BackoffChoices == {10, 1000, 6000}

IsNonRetryable(error) ==
  error.kind = "export_error" /\ shouldNotRetry(error.type)

IsRateLimited(error) ==
  error.kind = "export_error" /\ error.type = "rate_limit_error"

\* lines 343-348: the call, with its arguments
RetryWithBackoff ==
  /\ rPc = "idle"
  /\ \E m \in 0..MaxRetries, ms \in BackoffChoices :
       /\ maxRetries' = m
       /\ backoffMs' = ms
  /\ lastError' = NoThrown
  /\ attempt' = 1
  /\ rPc' = "loop"
  /\ UNCHANGED <<invocations, outcomes, waits, rValue, rRaised>>
  /\ UNCHANGED <<nonGdVars, batchVars>>

\* lines 350-352: operation() resolves
OperationSucceeds ==
  /\ rPc = "loop"
  /\ attempt <= maxRetries
  /\ invocations' = invocations + 1
  /\ outcomes' = Append(outcomes, Succeeded(attempt))
  /\ rValue' = "success"
  /\ rPc' = "returned"
  /\ UNCHANGED <<maxRetries, backoffMs, attempt, lastError, waits, rRaised>>
  /\ UNCHANGED <<nonGdVars, batchVars>>

\* lines 353-360: operation() throws an ExportError that is not retried
OperationFailsNonRetryable ==
  /\ rPc = "loop"
  /\ attempt <= maxRetries
  /\ \E error \in ThrownValues(attempt) :
       /\ IsNonRetryable(error)
       /\ invocations' = invocations + 1
       /\ outcomes' = Append(outcomes, error)
       /\ lastError' = ToError(error)
       /\ rRaised' = error
  /\ rPc' = "thrown"
  /\ UNCHANGED <<maxRetries, backoffMs, attempt, waits, rValue>>
  /\ UNCHANGED <<nonGdVars, batchVars>>

\* lines 362-368: operation() throws a rate-limit error
OperationRateLimited ==
  /\ rPc = "loop"
  /\ attempt <= maxRetries
  /\ \E error \in ThrownValues(attempt) :
       /\ ~IsNonRetryable(error) /\ IsRateLimited(error)
       /\ invocations' = invocations + 1
       /\ outcomes' = Append(outcomes, error)
       /\ lastError' = ToError(error)
  /\ waits' = Append(waits, calculateRateLimitDelay(attempt))
  /\ attempt' = attempt + 1
  /\ UNCHANGED <<rPc, maxRetries, backoffMs, rValue, rRaised>>
  /\ UNCHANGED <<nonGdVars, batchVars>>

\* a last attempt that waits like the others instead of throwing
OperationFailsLastAttempt_WaitsFirst ==
  /\ rPc = "loop"
  /\ attempt = maxRetries
  /\ \E error \in ThrownValues(attempt) :
       /\ ~IsNonRetryable(error) /\ ~IsRateLimited(error)
       /\ invocations' = invocations + 1
       /\ outcomes' = Append(outcomes, error)
       /\ lastError' = ToError(error)
  /\ waits' = Append(waits, BackoffDelay(backoffMs, attempt))
  /\ attempt' = attempt + 1
  /\ UNCHANGED <<rPc, maxRetries, backoffMs, rValue, rRaised>>
  /\ UNCHANGED <<nonGdVars, batchVars>>

\* lines 371-377: any other failure of the last attempt
OperationFailsLastAttempt ==
  /\ rPc = "loop"
  /\ attempt = maxRetries
  /\ \E error \in ThrownValues(attempt) :
       /\ ~IsNonRetryable(error) /\ ~IsRateLimited(error)
       /\ invocations' = invocations + 1
       /\ outcomes' = Append(outcomes, error)
       /\ lastError' = ToError(error)
       /\ rRaised' = ToError(error)
  /\ rPc' = "thrown"
  /\ UNCHANGED <<maxRetries, backoffMs, attempt, waits, rValue>>
  /\ UNCHANGED <<nonGdVars, batchVars>>

\* lines 379-384: any other failure of an earlier attempt
OperationFailsRetry ==
  /\ rPc = "loop"
  /\ attempt < maxRetries
  /\ \E error \in ThrownValues(attempt) :
       /\ ~IsNonRetryable(error) /\ ~IsRateLimited(error)
       /\ invocations' = invocations + 1
       /\ outcomes' = Append(outcomes, error)
       /\ lastError' = ToError(error)
  /\ waits' = Append(waits, BackoffDelay(backoffMs, attempt))
  /\ attempt' = attempt + 1
  /\ UNCHANGED <<rPc, maxRetries, backoffMs, rValue, rRaised>>
  /\ UNCHANGED <<nonGdVars, batchVars>>

\* line 387: the loop ended without a return or a throw
RetriesExhausted ==
  /\ rPc = "loop"
  /\ attempt > maxRetries
  /\ rRaised' = IF lastError # NoThrown THEN lastError
                ELSE Thrown("error", "Operation failed after retries", 0)
  /\ rPc' = "thrown"
  /\ UNCHANGED <<maxRetries, backoffMs, attempt, lastError, invocations,
                 outcomes, waits, rValue>>
  /\ UNCHANGED <<nonGdVars, batchVars>>

NextRetry ==
  \/ RetryWithBackoff
  \/ OperationSucceeds
  \/ OperationFailsNonRetryable
  \/ OperationRateLimited
  \/ OperationFailsLastAttempt
  \/ OperationFailsRetry
  \/ RetriesExhausted

SpecRetry == Init /\ [][NextRetry]_vars

\* operation() settles and the timers of delay() fire
SpecRetryFair == Init /\ [][NextRetry]_vars /\ WF_vars(NextRetry)

(***************************************************************************)
(* GracefulDegradation.processBatchWithDegradation.                        *)
(***************************************************************************)
ItemSeqs ==
  UNION { { [k \in 1..n |-> k], [k \in 1..n |-> 1] } : n \in 0..MaxItems }

\* a window that reaches one index too far
BatchIndexes_Overlap(start, size, n) ==
  { k \in start..(start + size) : k < n }

\* items.slice(i, i + maxConcurrent), as global indexes
BatchIndexes(start, size, n) ==
  { k \in start..(start + size - 1) : k < n }

ProgressCalls(done) ==
  IF hasProgressCallback
  THEN Append(bProgress, [completed |-> done, total |-> Len(bItems)])
  ELSE bProgress

\* lines 408-433: the call, its options, and the start of the first window
ProcessBatchWithDegradation ==
  /\ bPc = "idle"
  /\ \E items \in ItemSeqs, c \in BOOLEAN, w \in 1..MaxWindow,
        cb \in BOOLEAN :
       /\ bItems' = items
       /\ \E fs \in SUBSET (0..(Len(items) - 1)) : bFails' = fs
       /\ continueOnError' = c
       /\ maxConcurrent' = w
       /\ hasProgressCallback' = cb
       /\ inFlight' = BatchIndexes(0, w, Len(items))
  /\ bI' = 0
  /\ bPc' = "running"
  /\ UNCHANGED <<successful, failed, bProgress, bRaised>>
  /\ UNCHANGED <<nonGdVars, retryVars>>

\* lines 435-441: the processor of one item of the window resolves
ProcessorResolves ==
  /\ bPc \in {"running", "rejected"}
  /\ \E idx \in inFlight \ bFails :
       /\ successful' = Append(successful,
            [item |-> bItems[idx + 1], result |-> <<"result", idx>>,
             index |-> idx])
       /\ inFlight' = inFlight \ {idx}
  /\ bProgress' = ProgressCalls(Len(successful) + 1 + Len(failed))
  /\ UNCHANGED <<bPc, bItems, bFails, continueOnError, maxConcurrent,
                 hasProgressCallback, bI, failed, bRaised>>
  /\ UNCHANGED <<nonGdVars, retryVars>>

\* a catch block that records the failure and never rethrows
ProcessorThrows_Swallowed ==
  /\ bPc \in {"running", "rejected"}
  /\ \E idx \in inFlight \cap bFails :
       /\ \E error \in { Thrown("error", "Error", idx),
                         Thrown("value", "string", idx) } :
            failed' = Append(failed,
              [item |-> bItems[idx + 1], error |-> ToError(error),
               index |-> idx])
       /\ inFlight' = inFlight \ {idx}
  /\ bProgress' = ProgressCalls(Len(successful) + Len(failed) + 1)
  /\ UNCHANGED <<bPc, bItems, bFails, continueOnError, maxConcurrent,
                 hasProgressCallback, bI, successful, bRaised>>
  /\ UNCHANGED <<nonGdVars, retryVars>>

\* lines 442-458: the processor of one item of the window throws
ProcessorThrows ==
  /\ bPc \in {"running", "rejected"}
  /\ \E idx \in inFlight \cap bFails :
       /\ \E error \in { Thrown("error", "Error", idx),
                         Thrown("value", "string", idx) } :
            /\ failed' = Append(failed,
                 [item |-> bItems[idx + 1], error |-> ToError(error),
                  index |-> idx])
            \* throw processError: Promise.all rejects with the first
            \* rejection of the window
            /\ bRaised' = IF ~continueOnError /\ bPc = "running"
                          THEN ToError(error) ELSE bRaised
       /\ inFlight' = inFlight \ {idx}
  /\ bProgress' = ProgressCalls(Len(successful) + Len(failed) + 1)
  /\ bPc' = IF continueOnError THEN bPc ELSE "rejected"
  /\ UNCHANGED <<bItems, bFails, continueOnError, maxConcurrent,
                 hasProgressCallback, bI, successful>>
  /\ UNCHANGED <<nonGdVars, retryVars>>

\* a loop that launches the next window without awaiting the current one
NextBatch_NoWait ==
  /\ bPc = "running"
  /\ bI + maxConcurrent < Len(bItems)
  /\ bI' = bI + maxConcurrent
  /\ inFlight' = inFlight
       \cup BatchIndexes(bI + maxConcurrent, maxConcurrent, Len(bItems))
  /\ UNCHANGED <<bPc, bItems, bFails, continueOnError, maxConcurrent,
                 hasProgressCallback, successful, failed, bProgress, bRaised>>
  /\ UNCHANGED <<nonGdVars, retryVars>>

\* lines 430-433, 461-462: Promise.all resolved, the next window starts
NextBatch ==
  /\ bPc = "running"
  /\ inFlight = {}
  /\ bI + maxConcurrent < Len(bItems)
  /\ bI' = bI + maxConcurrent
  /\ inFlight' = BatchIndexes(bI + maxConcurrent, maxConcurrent, Len(bItems))
  /\ UNCHANGED <<bPc, bItems, bFails, continueOnError, maxConcurrent,
                 hasProgressCallback, successful, failed, bProgress, bRaised>>
  /\ UNCHANGED <<nonGdVars, retryVars>>

\* lines 465-469: the loop is over
BatchReturn ==
  /\ bPc = "running"
  /\ inFlight = {}
  /\ bI + maxConcurrent >= Len(bItems)
  /\ bPc' = "returned"
  /\ UNCHANGED <<bItems, bFails, continueOnError, maxConcurrent,
                 hasProgressCallback, bI, inFlight, successful, failed,
                 bProgress, bRaised>>
  /\ UNCHANGED <<nonGdVars, retryVars>>

NextBatchProcessing ==
  \/ ProcessBatchWithDegradation
  \/ ProcessorResolves
  \/ ProcessorThrows
  \/ NextBatch
  \/ BatchReturn

SpecBatch == Init /\ [][NextBatchProcessing]_vars

(***************************************************************************)
(* The hierarchy codec and the numbering engine, each function called on  *)
(* its own with arguments drawn from bounded sets.                         *)
(***************************************************************************)
IdAB == <<"a", "b">>
IdX == <<"x">>
IdWithSep == <<"a", "_", "b">>
EmptyId == <<>>

\* the ids a host can give to a catalog
CatalogIds == {IdA, IdAB, IdWithSep, EmptyId}

AncestorSeqs == UNION { [1..n -> CatalogIds] : n \in 1..MaxAncestors }

\* the hierarchyPath createQuickPickItems gives to the node reached through
\* the catalogs with these ids: each level passes its own hierarchyPath down
\* as parentPath
RECURSIVE hierarchyPathOf(_)
hierarchyPathOf(ids) ==
  IF ids = <<>> THEN <<>>
  ELSE hierarchyPath(hierarchyPathOf(SubSeq(ids, 1, Len(ids) - 1)),
                     ids[Len(ids)])

NameTokens == { <<"D", "o", "c">>, <<"p", "a", "g", "e">>, <<"1">>, <<" ">>,
                <<"-">>, <<"x">>, <<".">> }

Names ==
  { Concat(q) : q \in UNION { [1..n -> NameTokens] : n \in 0..MaxTokens } }

\* trees with a repeated id, with an id that holds the separator, with an
\* empty and with a missing subCatalog
ExtraTrees ==
  { << Leaf(IdA, "completed"),
       Parent(IdB, "failed", << Leaf(IdC, "failed"), Leaf(IdA, "completed"),
                                Leaf(IdAB, "completed") >>) >>,
    << Leaf(IdWithSep, "completed"), Leaf(IdA, "completed") >>,
    << Parent(IdA, "completed", <<>>), Leaf(IdB, "completed") >> }

FnTrees == OriginalTrees \cup ExtraTrees

\* selected items whose path has a segment the tree does not hold: an id
\* unknown to the tree, alone and inside a path, and an empty segment
StaleItems ==
  { Leaf(IdX, "completed"),
    Leaf(<<"a", "_", "x", "_", "b">>, "completed"),
    Leaf(<<"a", "_", "_", "b">>, "completed") }

FnSelections(tree) ==
  Selections(Range(createQuickPickItems(tree, <<>>)) \cup StaleItems,
             MaxSelected)

fnRest == <<rootDocuments, currentParent, selectedIndex, segmentIndex>>

\* part_004 lines 409-448: the id of a picker item
EncodeHierarchyId ==
  /\ fPc = "idle"
  /\ \E ancestors \in AncestorSeqs, id \in CatalogIds :
       /\ fArgs' = [ancestors |-> ancestors, id |-> id]
       /\ fValue' = << hierarchyPathOf(Append(ancestors, id)) >>
  /\ fPc' = "encoded"
  /\ UNCHANGED fnRest
  /\ UNCHANGED <<exportVars, gdVars, overlapVars>>

\* ExportService.getOriginalId applied to the encoded id
GetOriginalId ==
  /\ fPc = "encoded"
  /\ fValue' = Append(fValue, getOriginalId(fValue[1]))
  /\ fPc' = "getOriginalId"
  /\ UNCHANGED <<fArgs, fnRest>>
  /\ UNCHANGED <<exportVars, gdVars, overlapVars>>

\* MarkdownExporter.getOriginalDocumentId applied to the encoded id
GetOriginalDocumentId ==
  /\ fPc = "encoded"
  /\ fValue' = Append(fValue, getOriginalDocumentId(fValue[1]))
  /\ fPc' = "getOriginalDocumentId"
  /\ UNCHANGED <<fArgs, fnRest>>
  /\ UNCHANGED <<exportVars, gdVars, overlapVars>>

\* cleanDocumentName(name)
CleanName ==
  /\ fPc = "idle"
  /\ \E name \in Names :
       /\ fArgs' = [name |-> name]
       /\ fValue' = << cleanDocumentName(name) >>
  /\ fPc' = "cleaned"
  /\ UNCHANGED fnRest
  /\ UNCHANGED <<exportVars, gdVars, overlapVars>>

\* cleanDocumentName applied to its own result
CleanNameAgain ==
  /\ fPc = "cleaned"
  /\ fValue' = Append(fValue, cleanDocumentName(fValue[1]))
  /\ fPc' = "cleanedAgain"
  /\ UNCHANGED <<fArgs, fnRest>>
  /\ UNCHANGED <<exportVars, gdVars, overlapVars>>

\* assignDocumentNumbers(catalogs)
AssignNumbers ==
  /\ fPc = "idle"
  /\ \E catalogs \in FnTrees :
       /\ fArgs' = [catalogs |-> catalogs]
       /\ fValue' = << assignDocumentNumbers(catalogs) >>
  /\ fPc' = "numbered"
  /\ UNCHANGED fnRest
  /\ UNCHANGED <<exportVars, gdVars, overlapVars>>

\* a second call on the same tree: numberMap and currentIndex are locals
AssignNumbersAgain ==
  /\ fPc = "numbered"
  /\ fValue' = Append(fValue, assignDocumentNumbers(fArgs.catalogs))
  /\ fPc' = "numberedAgain"
  /\ UNCHANGED <<fArgs, fnRest>>
  /\ UNCHANGED <<exportVars, gdVars, overlapVars>>

\* hierarchyPath.split('_') of the selected document being processed
PathParts == split(fArgs.selectedDocuments[selectedIndex].id)

\* part_007 lines 292-310: the call, rootDocuments = [], originalIdMap
ReconstructHierarchy ==
  /\ fPc = "idle"
  /\ \E originalDocuments \in FnTrees :
       \E selectedDocuments \in FnSelections(originalDocuments) :
         fArgs' = [originalDocuments |-> originalDocuments,
                   selectedDocuments |-> selectedDocuments]
  /\ rootDocuments' = <<>>
  /\ currentParent' = <<>>
  /\ selectedIndex' = 1
  /\ segmentIndex' = 1
  /\ fPc' = "selection"
  /\ UNCHANGED fValue
  /\ UNCHANGED <<exportVars, gdVars, overlapVars>>

\* a segment loop that gives up the path at a segment the index lacks
ReconstructSegment_AbortsPath ==
  /\ fPc = "selection"
  /\ selectedIndex <= Len(fArgs.selectedDocuments)
  /\ segmentIndex <= Len(PathParts)
  /\ LET idMap == createOriginalIdMap(fArgs.originalDocuments)
         st == SegmentStep([root |-> rootDocuments, ip |-> currentParent],
                           PathParts, segmentIndex, idMap)
         known == PathParts[segmentIndex] = <<>>
                    \/ MapHas(idMap, PathParts[segmentIndex])
     IN /\ rootDocuments' = st.root
        /\ currentParent' = st.ip
        /\ segmentIndex' = IF known THEN segmentIndex + 1
                           ELSE Len(PathParts) + 1
  /\ UNCHANGED <<fPc, fArgs, fValue, selectedIndex>>
  /\ UNCHANGED <<exportVars, gdVars, overlapVars>>

\* part_007 lines 321-354: one iteration of the segment loop
ReconstructSegment ==
  /\ fPc = "selection"
  /\ selectedIndex <= Len(fArgs.selectedDocuments)
  /\ segmentIndex <= Len(PathParts)
  /\ LET st == SegmentStep([root |-> rootDocuments, ip |-> currentParent],
                           PathParts, segmentIndex,
                           createOriginalIdMap(fArgs.originalDocuments))
     IN /\ rootDocuments' = st.root
        /\ currentParent' = st.ip
  /\ segmentIndex' = segmentIndex + 1
  /\ UNCHANGED <<fPc, fArgs, fValue, selectedIndex>>
  /\ UNCHANGED <<exportVars, gdVars, overlapVars>>

\* part_007 lines 312-318: the next selectedDoc, currentParent = rootDocuments
ReconstructNextSelected ==
  /\ fPc = "selection"
  /\ selectedIndex <= Len(fArgs.selectedDocuments)
  /\ segmentIndex > Len(PathParts)
  /\ selectedIndex' = selectedIndex + 1
  /\ segmentIndex' = 1
  /\ currentParent' = <<>>
  /\ UNCHANGED <<fPc, fArgs, fValue, rootDocuments>>
  /\ UNCHANGED <<exportVars, gdVars, overlapVars>>

\* part_007 line 357: return rootDocuments
ReconstructReturn ==
  /\ fPc = "selection"
  /\ selectedIndex > Len(fArgs.selectedDocuments)
  /\ fValue' = << rootDocuments >>
  /\ fPc' = "reconstructed"
  /\ UNCHANGED <<fArgs, fnRest>>
  /\ UNCHANGED <<exportVars, gdVars, overlapVars>>

NextFunctions ==
  \/ EncodeHierarchyId
  \/ GetOriginalId
  \/ GetOriginalDocumentId
  \/ CleanName
  \/ CleanNameAgain
  \/ AssignNumbers
  \/ AssignNumbersAgain
  \/ ReconstructHierarchy
  \/ ReconstructSegment
  \/ ReconstructNextSelected
  \/ ReconstructReturn

SpecFunctions == Init /\ [][NextFunctions]_vars

(***************************************************************************)
(* Properties.                                                             *)
(***************************************************************************)
Done == pc = "done"

CountWrites(att, w) == Cardinality({ k \in 1..Len(att) : att[k].write = w })

BlankDestination == \A k \in 1..Len(destination) : destination[k] = " "

NoNodeProcessed ==
  /\ attempted = <<>>
  /\ fetches = <<>>
  /\ writes = <<>>
  /\ \A k \in 1..Len(events) : events[k].kind # "node"

UserCancelled == ExportError("user_cancelled", NoId)

\* C1 as stated: in every returned ExportResult, on the normal, abort and
\* cancellation paths alike, exportedCount + failedCount is the number of
\* completed nodes whose export was attempted.
C1_Original ==
  Done => result.exportedCount + result.failedCount = Len(attempted)

\* C1 (amended): when the layout strategy ran to completion, exportedCount
\* is the number of attempted nodes that were written and failedCount the
\* number of attempted nodes that failed (both 0 on the vacuous return); on
\* the abort and cancellation paths of exportDocuments failedCount is
\* documents.length - exportedCount, and when exportCatalogs aborts
\* failedCount is the number of all nodes of the reconstructed tree.
C1_CountsByPath ==
  Done =>
    CASE outcome = "vacuous" ->
           /\ result.exportedCount = 0 /\ result.failedCount = 0
           /\ attempted = <<>>
      [] outcome = "normal" /\ ~xAborted ->
           /\ result.exportedCount = CountWrites(attempted, "ok")
           /\ result.failedCount = CountWrites(attempted, "failed")
           /\ result.exportedCount + result.failedCount = Len(attempted)
      [] outcome = "normal" /\ xAborted ->
           /\ result.exportedCount = 0
           /\ result.failedCount =
                Len(flattenCatalogHierarchy(hierarchicalDocuments))
      [] outcome \in {"cancelled", "failed"} ->
           result.exportedCount + result.failedCount = Len(documents)

C1_Witness ==
  /\ Done /\ outcome = "normal" /\ ~xAborted
  /\ exportStructure = "tree"
  /\ result.exportedCount >= 1 /\ result.failedCount >= 1

\* C2: a call with no selected node or with a blank destination performs no
\* availability or authentication check, no directory creation, no fetch
\* and no write, and resolves with success = false and exactly one error.
C2_InvalidInputRejected ==
  (pc # "idle" /\ (Len(documents) = 0 \/ BlankDestination)) =>
    /\ availChecks = 0 /\ authChecks = 0
    /\ mkdirCalls = <<>> /\ fetches = <<>> /\ writes = <<>>
    /\ dirs = {} /\ files = {}
    /\ Done => (~result.success /\ Len(result.errors) = 1)

C2_Witness ==
  /\ Done /\ Len(documents) > 0 /\ destination = <<" ">>
  /\ ~result.success /\ Len(result.errors) = 1

\* the three setup faults of C3
IsSetupFault ==
  setupFault.type \in {"qoder_not_available", "authentication_failed"}
                        \cup FileErrorTypes

\* C3 as stated: after a setup fault (host unavailable, not authenticated,
\* top-level directory creation failed) no node is processed and the call
\* returns success = false with that fault as the only error.
C3_Original ==
  IsSetupFault =>
    /\ NoNodeProcessed
    /\ Done => (~result.success /\ result.errors = <<setupFault>>)

\* C3 (amended): after a setup fault no node is processed and the call
\* returns success = false with exactly one error: the fault, or the
\* USER_CANCELLED error that replaces it when cancellation has been
\* requested by the time exportDocuments catches the fault.
C3_SetupFaultAborts ==
  IsSetupFault =>
    /\ NoNodeProcessed
    /\ Done =>
         /\ ~result.success
         /\ result.errors = IF raisedAt # None /\ cancelRequested
                            THEN <<UserCancelled>> ELSE <<setupFault>>

C3_Witness ==
  /\ Done /\ setupFault.type = "permission_denied"
  /\ raisedAt = "mkdir" /\ ~cancelRequested
  /\ result.errors = <<setupFault>>

\* C4: once something is thrown inside exportDocuments the call is in its
\* catch block or has resolved, and unless the cancellation branch is taken
\* the result has success = false and the thrown value as first error, an
\* ExportError as it is and anything else wrapped as an api_error.
C4_ExceptionsReturned ==
  raisedAt # None =>
    /\ pc \in {"catch", "done"}
    /\ (Done /\ ~cancelRequested) =>
         /\ ~result.success
         /\ outcome = "failed"
         /\ Len(result.errors) >= 1
         /\ result.errors[1].typed
         /\ IF raised.typed THEN result.errors[1] = raised
            ELSE result.errors[1] = ExportError("api_error", NoId)

C4_Witness ==
  /\ Done /\ raisedAt = "aggregate" /\ ~raised.typed /\ ~cancelRequested
  /\ Len(result.errors) >= 2
  /\ result.errors[1].type = "api_error"

\* C5 as stated: when cancellation is requested while a layout strategy
\* still has nodes to process, no node is attempted after the request and
\* the call ends with the cancellation outcome.
C5_Original ==
  (cancelPoint.pc \in {"x_flat", "x_tree"} /\ cancelPoint.pending) =>
    /\ Len(attempted) = cancelPoint.attempted
    /\ Done => outcome = "cancelled"

C7_VacuousSuccess ==
  ( /\ pc \notin {"idle", "validate", "availability", "filter"}
    /\ Len(documents) > 0 /\ ~BlankDestination
    /\ raisedAt = None
    /\ \A k \in 1..Len(documents) : documents[k].status # "completed" ) =>
    /\ mkdirCalls = <<>> /\ fetches = <<>> /\ writes = <<>>
    /\ dirs = {} /\ files = {}
    /\ Done
    /\ result = ExportResult(TRUE, 0, 0, <<>>, destination)

C7_Witness ==
  /\ Done /\ outcome = "vacuous" /\ Len(documents) = 2
  /\ result.success /\ availChecks = 1 /\ authChecks = 1

Ids(seq) == [k \in 1..Len(seq) |-> seq[k].id]

\* the catalogs processLevel reaches when nothing fails: the completed ones
\* whose ancestors are all completed, in depth-first pre-order
RECURSIVE ExpectedTreeOrder(_)
ExpectedTreeOrder(items) ==
  IF items = <<>> THEN <<>>
  ELSE LET c == Head(items)
       IN (IF IsCompleted(c)
           THEN <<c>> \o (IF hasChildren(c) THEN ExpectedTreeOrder(c.sub)
                          ELSE <<>>)
           ELSE <<>>)
          \o ExpectedTreeOrder(Tail(items))

CompletedPreOrder ==
  SelectSeq(flattenCatalogHierarchy(hierarchicalDocuments), IsCompleted)

ExpectedOrder ==
  IF exportStructure = "flat" THEN CompletedPreOrder
  ELSE ExpectedTreeOrder(hierarchicalDocuments)

WriteFailed(a) == a.write = "failed"
FailedAttempts == SelectSeq(attempted, WriteFailed)

StrategyFinished == pc = "aggregate" /\ ~xAborted

\* every failed node is counted once and has its conversion_error
FailuresRecorded ==
  /\ xFailed = Len(FailedAttempts)
  /\ xErrors = [k \in 1..Len(FailedAttempts) |->
                  ExportError("conversion_error", FailedAttempts[k].id)]

\* C8 as stated: in FLAT and in TREE a failed node gets a conversion_error
\* with its id and one more failedCount, and no failure keeps any other
\* node of the traversal from being attempted.
C8_Original ==
  StrategyFinished =>
    /\ FailuresRecorded
    /\ Ids(attempted) = Ids(ExpectedOrder)

IsNodeEvent(e) == e.kind = "node"
NodeEvents == SelectSeq(events, IsNodeEvent)

RECURSIVE IsSubseq(_, _)
IsSubseq(a, b) ==
  IF a = <<>> THEN TRUE
  ELSE IF b = <<>> THEN FALSE
  ELSE IF Head(a) = Head(b) THEN IsSubseq(Tail(a), Tail(b))
  ELSE IsSubseq(a, Tail(b))

StrategyReturned == Done /\ outcome = "normal" /\ ~xAborted

\* "Preparing export...", then only per-node events, then the strategy's
\* "Export complete" and the orchestrator's own 100% event, which is last
EventsShape ==
  LET n == Len(events)
  IN /\ n = Len(NodeEvents) + 3
     /\ events[1].kind = "prepare"
     /\ \A k \in 2..(n - 2) : events[k].kind = "node"
     /\ events[n - 1].kind = "final" /\ events[n - 1].percentage = 100
     /\ events[n].kind = "complete" /\ events[n].percentage = 100

SelectionOrder ==
  [k \in 1..Len(validDocuments) |-> getOriginalId(validDocuments[k].id)]

\* C9 as stated: the per-node events come in traversal order, depth-first
\* for TREE and selection order for FLAT, and the 100% event is the last one
\* even when nodes failed.
C9_Original ==
  StrategyReturned =>
    /\ EventsShape
    /\ exportStructure = "tree" =>
         IsSubseq(Ids(NodeEvents), Ids(ExpectedTreeOrder(hierarchicalDocuments)))
    /\ exportStructure = "flat" =>
         [k \in 1..Len(NodeEvents) |-> getOriginalId(NodeEvents[k].id)]
           = SelectionOrder

\* C9 (amended): the per-node events come in the order the nodes are
\* attempted, which is depth-first in TREE and, in FLAT, the depth-first
\* pre-order of the completed nodes of the reconstructed tree; the 100%
\* event is the last one even when nodes failed, and once it is delivered
\* no event follows.
C9_ProgressOrder ==
  /\ \A k \in 1..Len(events) : events[k].kind = "complete" => k = Len(events)
  /\ StrategyReturned =>
       /\ EventsShape
       /\ Ids(NodeEvents) = Ids(attempted)
       /\ exportStructure = "tree" =>
            IsSubseq(Ids(NodeEvents),
                     Ids(ExpectedTreeOrder(hierarchicalDocuments)))
       /\ exportStructure = "flat" => Ids(NodeEvents) = Ids(CompletedPreOrder)

C9_Witness ==
  /\ StrategyReturned
  /\ exportStructure = "tree"
  /\ Len(NodeEvents) = 3
  /\ NodeEvents[1].id = IdA /\ NodeEvents[2].id = IdB /\ NodeEvents[3].id = IdC
  /\ result.failedCount >= 1
  /\ events[Len(events)].percentage = 100

Fetched(a) == a.fetch # "none"
FetchAttempts == SelectSeq(attempted, Fetched)

\* the id handed to getWikiContent is the last "_"-separated segment of the
\* node's id
IsDecodedIdOf(originalId, id) ==
  /\ \A k \in 1..Len(originalId) : originalId[k] # Sep
  /\ Len(originalId) <= Len(id)
  /\ SubSeq(id, Len(id) - Len(originalId) + 1, Len(id)) = originalId
  /\ Len(id) > Len(originalId) => id[Len(id) - Len(originalId)] = Sep

FetchedByDecodedId ==
  /\ Len(fetches) = Len(FetchAttempts)
  /\ \A k \in 1..Len(fetches) : IsDecodedIdOf(fetches[k], FetchAttempts[k].id)

LastWriteTo(k) ==
  \A m \in (k + 1)..Len(attempted) :
    ~(attempted[m].write = "ok" /\ attempted[m].path = attempted[k].path)

\* a failed fetch downgrades the node: it is written with the placeholder
\* body and counted as exported, and only failed writes are counted as failed
FetchFailureDowngrades ==
  /\ \A k \in 1..Len(attempted) :
       (attempted[k].fetch = "failed" /\ attempted[k].write = "ok"
          /\ LastWriteTo(k)) =>
         \E f \in files : /\ f.path = attempted[k].path
                          /\ f.id = attempted[k].id
                          /\ f.body = "placeholder"
  /\ StrategyFinished =>
       /\ xExported = CountWrites(attempted, "ok")
       /\ FailuresRecorded

\* C10 as stated: with an accessor configured every completed node that is
\* emitted, leaf or parent, FLAT or TREE, is fetched by its decoded id, and
\* a failed fetch still yields a placeholder file counted as exported.
C10_Original ==
  /\ qoderApiService # None =>
       \A k \in 1..Len(attempted) :
         attempted[k].write = "ok" => attempted[k].fetch # "none"
  /\ FetchedByDecodedId
  /\ FetchFailureDowngrades

\* C10 (amended): with an accessor configured every completed node written
\* as a document file (every FLAT node, every TREE leaf) is fetched by its
\* decoded id, while a TREE node with sub-catalogs gets a generated
\* README.md and is never fetched; a failed fetch still yields a
\* placeholder file counted as exported, with no error and no failedCount.
C10_FetchByDecodedId ==
  /\ \A k \in 1..Len(attempted) :
       IF attempted[k].dir THEN attempted[k].fetch = "none"
       ELSE (attempted[k].fetch # "none") <=> (qoderApiService # None)
  /\ FetchedByDecodedId
  /\ FetchFailureDowngrades

C10_Witness ==
  /\ StrategyReturned
  /\ qoderApiService # None
  /\ \E k \in 1..Len(attempted) :
       /\ attempted[k].fetch = "failed" /\ attempted[k].write = "ok"
       /\ \E j \in 1..Len(attempted[k].id) : attempted[k].id[j] = Sep
       /\ \E f \in files : f.path = attempted[k].path /\ f.body = "placeholder"
  /\ result.exportedCount = Len(attempted) /\ result.failedCount = 0
  /\ result.errors = <<>>

(***************************************************************************)
(* The catalogs of a tree in depth-first pre-order, each with the number   *)
(* of its position among its siblings under its parent's number.           *)
(***************************************************************************)
RECURSIVE PositionedFrom(_, _, _)
PositionedFrom(items, parent, k) ==
  IF k > Len(items) THEN <<>>
  ELSE LET c == items[k]
           num == Append(parent, k)
       IN << [id |-> c.id, name |-> c.name, status |-> c.status,
              number |-> num, parent |-> c.sub # <<>>] >>
          \o PositionedFrom(c.sub, num, 1)
          \o PositionedFrom(items, parent, k + 1)

PositionedNodes == PositionedFrom(hierarchicalDocuments, <<>>, 1)

CompletedPositions ==
  { k \in 1..Len(PositionedNodes) : PositionedNodes[k].status = "completed" }

Attempted(id) == \E j \in 1..Len(attempted) : attempted[j].id = id

\* C11 as stated: TREE emits nothing for a node that is not completed, and
\* still processes every completed descendant of such a node.
C11_Original ==
  (StrategyFinished /\ exportStructure = "tree" /\ FailedAttempts = <<>>) =>
    \A k \in 1..Len(PositionedNodes) :
      Attempted(PositionedNodes[k].id) <=> k \in CompletedPositions

Str1A == <<"1", ".", " ", "A">>
StrReadme == <<"R", "E", "A", "D", "M", "E", ".", "m", "d">>

\* Root(completed) -> [Child(completed), Sibling(failed)]
ScenarioTree ==
  << Parent(IdA, "completed",
            << Leaf(IdB, "completed"), Leaf(IdC, "failed") >>) >>

ScenarioTwo ==
  /\ StrategyReturned
  /\ exportStructure = "tree"
  /\ hierarchicalDocuments = ScenarioTree
  /\ FailedAttempts = <<>>

FilePaths == { f.path : f \in files }

\* C12 as stated: the TREE export of Root -> [Child, Sibling(failed)] writes
\* exactly "1. Root/README.md" and "1. Root/1. Child.md", nothing for
\* Sibling, and returns exportedCount = 2.
C12_Original ==
  ScenarioTwo =>
    /\ FilePaths = { <<destination, Str1A, StrReadme>>,
                     <<destination, Str1A,
                       <<"1", ".", " ", "B", ".", "m", "d">>>> }
    /\ \A f \in files : f.id # IdC
    /\ result.exportedCount = 2

\* C12 (amended): the TREE export of Root -> [Child, Sibling(failed)] writes
\* exactly "1. Root/README.md" and "1. Root/1.1. Child.md" (the child
\* carries its full hierarchical number), nothing for Sibling, and returns
\* exportedCount = 2.
C12_ScenarioTwo ==
  ScenarioTwo =>
    /\ FilePaths = { <<destination, Str1A, StrReadme>>,
                     <<destination, Str1A,
                       <<"1", ".", "1", ".", " ", "B", ".", "m", "d">>>> }
    /\ \A f \in files : f.id # IdC
    /\ result.exportedCount = 2

C12_Witness ==
  /\ ScenarioTwo
  /\ result.exportedCount = 2 /\ result.failedCount = 0
  /\ Cardinality(files) = 2

\* the number and name assignDocumentNumbers leaves for an id: those of the
\* last catalog with that id
LastWithId(id) ==
  PositionedNodes[CHOOSE k \in 1..Len(PositionedNodes) :
                    /\ PositionedNodes[k].id = id
                    /\ \A m \in (k + 1)..Len(PositionedNodes) :
                         PositionedNodes[m].id # id]

ExpectedFlatName(id) ==
  NumberString(LastWithId(id).number) \o <<".", " ">>
    \o cleanDocumentName(LastWithId(id).name) \o <<".", "m", "d">>

\* C13: FLAT attempts every completed catalog of the tree, leaf or parent,
\* once, as the file "{number}. {cleanName}.md" directly in the destination
\* root; no other directory is created and no file exists for a catalog
\* that is not completed.
C13_FlatLayout ==
  (StrategyFinished /\ exportStructure = "flat") =>
    /\ Len(attempted) = Cardinality(CompletedPositions)
    /\ \A k \in CompletedPositions :
         \E j \in 1..Len(attempted) :
           /\ attempted[j].id = PositionedNodes[k].id
           /\ attempted[j].path =
                <<destination, ExpectedFlatName(PositionedNodes[k].id)>>
    /\ \A j \in 1..Len(attempted) :
         attempted[j].write = "ok" => attempted[j].path \in FilePaths
    /\ \A f \in files :
         /\ Len(f.path) = 2 /\ f.path[1] = destination
         /\ \E k \in CompletedPositions : PositionedNodes[k].id = f.id
         /\ \A g \in files : g.path = f.path => g = f
    /\ FailedAttempts = <<>> =>
         Cardinality(files) =
           Cardinality({ PositionedNodes[k].id : k \in CompletedPositions })
    /\ dirs \subseteq { <<destination>> }
    /\ \A k \in 1..Len(mkdirCalls) : mkdirCalls[k] = <<destination>>

C13_Witness ==
  /\ StrategyFinished /\ exportStructure = "flat"
  /\ hierarchicalDocuments = ScenarioTree
  /\ FilePaths = { <<destination, <<"1", ".", " ", "A", ".", "m", "d">>>>,
                   <<destination,
                     <<"1", ".", "1", ".", " ", "B", ".", "m", "d">>>> }

IndexName == <<"i", "n", "d", "e", "x", ".", "m", "d">>

\* C14 as stated: once exportCatalogs has processed all nodes, index.md
\* exists at the destination root (createIndexFile is always enabled by
\* exportDocuments).
C14_Original ==
  StrategyFinished => <<destination, IndexName>> \in FilePaths

LayoutStarted == pc \in {"x_mkdir", "x_flat", "x_tree", "aggregate"}

\* the hierarchy paths of a node and of all its ancestors
PathPrefixes(id) ==
  { SubSeq(id, 1, k) : k \in { n \in 1..Len(id) :
                                 n = Len(id) \/ id[n + 1] = Sep } }

ReconstructedPaths == Ids(createQuickPickItems(hierarchicalDocuments, <<>>))

\* C15 as stated: for any selection order, the reconstructed tree holds
\* exactly the nodes on the union of the root-to-selected paths, each under
\* its original parent, none of them twice.
C15_Original ==
  (hasOriginalCatalogs /\ LayoutStarted) =>
    /\ Distinct(ReconstructedPaths)
    /\ Range(ReconstructedPaths) =
         UNION { PathPrefixes(validDocuments[k].id) :
                   k \in 1..Len(validDocuments) }

(***************************************************************************)
(* Properties of retryWithBackoff and processBatchWithDegradation.         *)
(***************************************************************************)
TaggedNonRetryable(o) ==
  /\ o.kind = "export_error"
  /\ o.type \in {"authentication_failed", "qoder_not_available",
                 "user_cancelled", "document_not_found", "permission_denied",
                 "disk_space_error", "validation_error"}

TaggedRateLimit(o) == o.kind = "export_error" /\ o.type = "rate_limit_error"

TransientFailure(o) ==
  \/ o.kind = "export_error" /\ o.type \in {"api_error", "network_error"}
  \/ o.kind \in {"error", "value"}

\* C16: a failure tagged with a non-retryable kind ends the call at once:
\* it is the last invocation, the same error is raised, and no delay is
\* waited after it, so a first attempt failing this way gives exactly one
\* invocation and no wait.
C16_NonRetryableRaised ==
  \A a \in 1..Len(outcomes) :
    TaggedNonRetryable(outcomes[a]) =>
      /\ a = Len(outcomes)
      /\ rPc = "thrown"
      /\ rRaised = outcomes[a]
      /\ invocations = a
      /\ Len(waits) = a - 1

C16_Witness ==
  /\ rPc = "thrown"
  /\ maxRetries = 3
  /\ outcomes = << Thrown("export_error", "authentication_failed", 1) >>
  /\ invocations = 1
  /\ waits = <<>>

\* the call returned and every failure before the success was transient
TransientThenSuccess ==
  /\ rPc = "returned"
  /\ \A a \in 1..(Len(outcomes) - 1) : TransientFailure(outcomes[a])

SuccessAtK ==
  LET k == Len(outcomes)
  IN /\ 1 <= k /\ k <= maxRetries
     /\ outcomes[k] = Succeeded(k)
     /\ rValue = "success"
     /\ invocations = k
     /\ Len(waits) = k - 1

\* C17 as stated: k-1 transient failures then a success give the success
\* after exactly k invocations and k-1 waits, each wait longer than the
\* one before.
C17_Original ==
  TransientThenSuccess =>
    /\ SuccessAtK
    /\ \A a \in 1..(Len(waits) - 1) : waits[a] < waits[a + 1]

\* C17 (amended): k-1 transient failures then a success give the success
\* after exactly k invocations and k-1 waits; the waits never decrease and
\* grow from one attempt to the next until they reach the 10000 ms ceiling.
C17_RetryUntilSuccess ==
  TransientThenSuccess =>
    /\ SuccessAtK
    /\ \A a \in 1..(Len(waits) - 1) :
         /\ waits[a] <= waits[a + 1]
         /\ waits[a] < 10000 => waits[a] < waits[a + 1]

C17_Witness ==
  /\ TransientThenSuccess
  /\ maxRetries = 3 /\ backoffMs = 10
  /\ invocations = 3
  /\ waits = <<10, 20>>
  /\ rValue = "success"

AllTransient ==
  /\ outcomes # <<>>
  /\ \A a \in 1..Len(outcomes) : TransientFailure(outcomes[a])

ExhaustedByTransient ==
  (rPc = "thrown" /\ maxRetries >= 1 /\ AllTransient) =>
    /\ invocations = maxRetries
    /\ Len(outcomes) = maxRetries
    /\ waits = [a \in 1..(maxRetries - 1) |->
                  Min(backoffMs * Pow2(a - 1), 10000)]
    /\ LET last == outcomes[maxRetries]
       IN IF last.kind = "value"
          THEN rRaised = Thrown("error", "String(value)", maxRetries)
          ELSE rRaised = last

\* C18: when every attempt fails with a transient error the operation is
\* invoked exactly maxRetries times, the wait after attempt a < maxRetries
\* is min(backoffMs * 2^(a-1), 10000), no wait follows the last attempt,
\* the error of the last attempt is raised (wrapped in an Error when the
\* thrown value is not one), and the call always terminates.
C18_Exhaustion ==
  /\ [](ExhaustedByTransient /\ invocations <= maxRetries)
  /\ (rPc = "loop") ~> (rPc \in {"returned", "thrown"})

C18_Witness ==
  /\ rPc = "thrown"
  /\ AllTransient
  /\ maxRetries = 4 /\ backoffMs = 6000
  /\ invocations = 4
  /\ waits = <<6000, 10000, 10000>>
  /\ rRaised = outcomes[4]

AllRateLimited ==
  /\ outcomes # <<>>
  /\ \A a \in 1..Len(outcomes) : TaggedRateLimit(outcomes[a])

\* C19: a rate-limited attempt a is followed by a wait of
\* min(5000 * 2^(a-1), 60000) ms and then by attempt a+1 if there is one;
\* it consumes its attempt slot, so there are never more than maxRetries
\* invocations, and when all attempts are rate-limited the last error is
\* raised.
C19_RateLimit ==
  /\ invocations <= maxRetries
  /\ \A a \in 1..Len(outcomes) :
       TaggedRateLimit(outcomes[a]) =>
         /\ Len(waits) >= a
         /\ waits[a] = Min(5000 * Pow2(a - 1), 60000)
         /\ (a = Len(outcomes) /\ rPc = "loop") =>
              /\ attempt = a + 1
              /\ invocations = a
  /\ (rPc = "thrown" /\ maxRetries >= 1 /\ AllRateLimited) =>
       /\ invocations = maxRetries
       /\ Len(waits) = maxRetries
       /\ rRaised = outcomes[maxRetries]

C19_Witness ==
  /\ rPc = "thrown"
  /\ AllRateLimited
  /\ maxRetries = 5
  /\ invocations = 5
  /\ waits = <<5000, 10000, 20000, 40000, 60000>>
  /\ rRaised = Thrown("export_error", "rate_limit_error", 5)

EntriesFor(arr, idx) == { k \in 1..Len(arr) : arr[k].index = idx }

\* C20: with continueOnError the result holds every item exactly once, at
\* the index of its position in the input, in failed if its processor
\* threw and in successful otherwise, whatever the window size.
C20_BatchPartition ==
  (bPc = "returned" /\ continueOnError) =>
    /\ Len(successful) + Len(failed) = Len(bItems)
    /\ \A idx \in 0..(Len(bItems) - 1) :
         LET s == EntriesFor(successful, idx)
             f == EntriesFor(failed, idx)
         IN /\ Cardinality(s) + Cardinality(f) = 1
            /\ (idx \in bFails) <=> (f # {})
            /\ \A k \in s : successful[k].item = bItems[idx + 1]
            /\ \A k \in f : failed[k].item = bItems[idx + 1]

C20_Witness ==
  /\ bPc = "returned" /\ continueOnError
  /\ bItems = <<1, 2, 3, 4, 5>>
  /\ bFails = {2}
  /\ maxConcurrent = 2
  /\ Len(successful) = 4
  /\ Len(failed) = 1 /\ failed[1].item = 3 /\ failed[1].index = 2

\* the indexes whose processor has settled, and those handed to a processor
SettledIndexes ==
  { successful[k].index : k \in 1..Len(successful) }
    \cup { failed[k].index : k \in 1..Len(failed) }

StartedIndexes == SettledIndexes \cup inFlight

\* the window an index belongs to
WindowOf(idx) == idx \div maxConcurrent

WindowsInOrder ==
  bPc # "idle" =>
    /\ Cardinality(inFlight) <= maxConcurrent
    /\ \A idx \in StartedIndexes, k \in 0..(Len(bItems) - 1) :
         WindowOf(k) < WindowOf(idx) => k \in SettledIndexes
    /\ \A idx \in inFlight, k \in 0..(Len(bItems) - 1) :
         WindowOf(k) > WindowOf(idx) => k \notin StartedIndexes

\* C21: the items are processed in consecutive windows of at most
\* maxConcurrent items: at most maxConcurrent processor invocations are in
\* flight, an invocation of a window is started only when every invocation
\* of the windows before it has settled, and a step that starts invocations
\* is taken only when none is in flight, whatever the order of completions.
C21_Windows ==
  /\ []WindowsInOrder
  /\ [][ (inFlight' \ inFlight # {}) => inFlight = {} ]_vars

C21_Witness ==
  /\ bPc = "running"
  /\ bItems = <<1, 2, 3, 4, 5>> /\ maxConcurrent = 2
  /\ bI = 2 /\ inFlight = {2}
  /\ Len(successful) = 3
  /\ successful[1].index = 1 /\ successful[2].index = 0
  /\ successful[3].index = 3

\* C22: without continueOnError, once a processor has thrown the call is
\* rejected with the error of the first item that failed (wrapped in an
\* Error when the thrown value is not one), it never returns, and no item
\* of a later window is ever handed to the processor.
C22_FailFast ==
  (bPc # "idle" /\ ~continueOnError /\ failed # <<>>) =>
    /\ bPc = "rejected"
    /\ bRaised.kind = "error"
    /\ bRaised.at = failed[1].index
    /\ bRaised = failed[1].error
    /\ \A idx \in StartedIndexes : WindowOf(idx) <= WindowOf(failed[1].index)
    /\ bI = WindowOf(failed[1].index) * maxConcurrent

C22_Witness ==
  /\ bPc = "rejected" /\ ~continueOnError
  /\ bItems = <<1, 2, 3, 4, 5>> /\ maxConcurrent = 2
  /\ bFails = {2, 3, 4}
  /\ inFlight = {}
  /\ Len(successful) = 2
  /\ Len(failed) = 2 /\ failed[1].index = 3 /\ failed[2].index = 2
  /\ bRaised = Thrown("error", "String(value)", 3)

(***************************************************************************)
(* Properties of the codec and of the numbering engine.                    *)
(***************************************************************************)
HasSep(id) == \E k \in 1..Len(id) : id[k] = Sep

Decoded == fPc \in {"getOriginalId", "getOriginalDocumentId"}

\* C23 as stated: for every non-empty ancestor sequence and every id without
\* the separator, getOriginalId and getOriginalDocumentId applied to the
\* ancestors' ids and the id joined with "_" return the id.
C23_Original ==
  (Decoded /\ fArgs.ancestors # <<>> /\ ~HasSep(fArgs.id)) =>
    fValue[2] = fArgs.id

\* the catalogs of the numbered tree in depth-first pre-order, each with
\* the number of its position
TreePositions == PositionedFrom(fArgs.catalogs, <<>>, 1)

\* "p.i" is the text of p, a dot and i
RendersAsChild(number) ==
  Len(number) > 1 =>
    NumberString(number) =
      NumberString(SubSeq(number, 1, Len(number) - 1))
        \o <<".", Digits[number[Len(number)] + 1]>>

PositionNumbers(m) ==
  /\ Len(m) = Len(TreePositions)
  /\ \A k \in 1..Len(m) :
       /\ m[k].id = TreePositions[k].id
       /\ m[k].number = TreePositions[k].number
       /\ m[k].cleanName = cleanDocumentName(TreePositions[k].name)
       /\ RendersAsChild(m[k].number)
  /\ \A t \in 1..Len(fArgs.catalogs) :
       \E k \in 1..Len(m) :
         /\ m[k].id = fArgs.catalogs[t].id
         /\ m[k].number = <<t>>
         /\ NumberString(m[k].number) = <<Digits[t + 1]>>

\* C24: assignDocumentNumbers makes its set() calls in depth-first
\* pre-order; the top-level catalogs get "1", "2", "3", ..., the i-th child
\* of a catalog numbered p, counted among all its siblings whatever their
\* status, gets "p.i"; a second run on the same tree gives the same map.
C24_Numbering ==
  (fPc \in {"numbered", "numberedAgain"}) =>
    /\ \A r \in 1..Len(fValue) : PositionNumbers(fValue[r])
    /\ fPc = "numberedAgain" => fValue[2] = fValue[1]

C24_Witness ==
  /\ fPc = "numberedAgain"
  /\ Len(fArgs.catalogs) = 2 /\ Len(fArgs.catalogs[2].sub) = 3
  /\ fArgs.catalogs[2].sub[1].status = "failed"
  /\ [k \in 1..5 |-> fValue[2][k].number]
       = << <<1>>, <<2>>, <<2, 1>>, <<2, 2>>, <<2, 3>> >>
  /\ NumberString(fValue[2][5].number) = <<"2", ".", "3">>
  /\ fValue[1] = fValue[2]

\* C25 as stated: cleanDocumentName applied to its own result returns that
\* result, for every name.
C25_Original ==
  fPc = "cleanedAgain" => fValue[2] = fValue[1]

\* every array of the tree old is a prefix of the array at the same place
\* in the tree new: nodes were only added, each behind its siblings
RECURSIVE Extends(_, _)
Extends(new, old) ==
  /\ Len(new) >= Len(old)
  /\ \A k \in 1..Len(old) :
       /\ new[k].id = old[k].id
       /\ Extends(new[k].sub, old[k].sub)

RECURSIVE NodeCount(_)
NodeCount(forest) ==
  IF forest = <<>> THEN 0
  ELSE 1 + NodeCount(Head(forest).sub) + NodeCount(Tail(forest))

\* C26: while reconstructHierarchy walks the selection, every step leaves
\* the nodes already in the output tree where they are and adds at most one
\* node, behind the siblings already under its parent (or at the root), so
\* in the returned tree the siblings stand in the order of their first
\* insertion, whatever their order in the original tree.
C26_InsertionOrder ==
  /\ [](fPc = "reconstructed" =>
          fValue[1] = reconstructHierarchy(fArgs.originalDocuments,
                                           fArgs.selectedDocuments))
  /\ [][ /\ Extends(rootDocuments', rootDocuments)
         /\ NodeCount(rootDocuments') <= NodeCount(rootDocuments) + 1 ]_vars

C26_Witness ==
  /\ fPc = "reconstructed"
  /\ Ids(fArgs.originalDocuments) = <<IdA>>
  /\ Ids(fArgs.originalDocuments[1].sub) = <<IdB, IdC>>
  /\ Ids(fArgs.selectedDocuments)
       = << <<"a", "_", "c">>, <<"a", "_", "b">> >>
  /\ Ids(fValue[1]) = <<IdA>>
  /\ Ids(fValue[1][1].sub) = <<IdC, IdB>>

\* the ids of all the catalogs of a tree
RECURSIVE TreeIds(_)
TreeIds(forest) ==
  IF forest = <<>> THEN {}
  ELSE {Head(forest).id} \cup TreeIds(Head(forest).sub)
         \cup TreeIds(Tail(forest))

\* the non-empty segments of the paths of the selected documents
SelectedSegments ==
  UNION { Range(split(fArgs.selectedDocuments[k].id)) :
            k \in 1..Len(fArgs.selectedDocuments) } \ { <<>> }

\* C27: reconstructHierarchy returns for every selection, also when a path
\* segment is not an id of the original tree; the returned tree holds a
\* node for a segment exactly when the original tree has that id, so only
\* the nodes of the absent segments are missing, and the segments behind an
\* absent one and the other selected documents still get their nodes.
C27_MissingSegment ==
  fPc = "reconstructed" =>
    /\ TreeIds(fValue[1]) \subseteq SelectedSegments
    /\ \A s \in SelectedSegments :
         s \in TreeIds(fValue[1]) <=> s \in TreeIds(fArgs.originalDocuments)

C27_Witness ==
  /\ fPc = "reconstructed"
  /\ TreeIds(fArgs.originalDocuments) = {IdA, IdB, IdC}
  /\ Ids(fArgs.selectedDocuments)
       = << <<"a", "_", "x", "_", "b">>, <<"c">> >>
  /\ Ids(fValue[1]) = <<IdA, IdC>>
  /\ Ids(fValue[1][1].sub) = <<IdB>>

(***************************************************************************)
(* Properties of overlapping calls, of the catch block and of the paths.   *)
(***************************************************************************)
CallRunning == pc \notin {"idle", "done"}

\* what isExportInProgress() returns
isExportInProgress == isExporting

\* C28 as stated: isExportInProgress() is true exactly while at least one
\* exportDocuments call on the instance has started and not resolved, and
\* when one of two overlapping calls resolves, the flag and the
\* cancellation token of the call still running are left as they are.
C28_Original ==
  /\ [](isExportInProgress <=> (CallRunning \/ call2 = "running"))
  /\ [][ (call2 = "running" /\ call2' = "done" /\ CallRunning) =>
           /\ isExporting'
           /\ cancellationToken' = cancellationToken ]_vars

\* C29: when the catch block of exportDocuments is reached while the
\* cancellation token reports a request, the call resolves with
\* success = false and the single USER_CANCELLED error; the value that was
\* thrown, whatever raised it, appears nowhere in the result.
C29_CancelMasksFault ==
  (Done /\ raisedAt # None /\ cancelRequested) =>
    /\ ~result.success
    /\ Len(result.errors) = 1
    /\ result.errors[1].typed
    /\ result.errors[1].type = "user_cancelled"
    /\ result.errors[1].documentId = NoId
    /\ raised.type # "user_cancelled" =>
         \A k \in 1..Len(result.errors) :
           /\ result.errors[k] # raised
           /\ result.errors[k].type \notin {raised.type, "api_error"}

C29_Witness ==
  /\ Done /\ cancelRequested
  /\ cancelPoint.pc = "mkdir"
  /\ raisedAt = "mkdir"
  /\ raised = ExportError("permission_denied", NoId)
  /\ setupFault = raised
  /\ result.errors = <<UserCancelled>>

\* the ids of the tree given to exportCatalogs are pairwise distinct
TreeHasDistinctIds ==
  Distinct(Ids(flattenCatalogHierarchy(hierarchicalDocuments)))

\* C30: when the ids of the tree given to exportCatalogs are pairwise
\* distinct, the numbers assigned to its catalogs are pairwise distinct, as
\* numbers and as text, no two catalogs are written to the same path in
\* FLAT or in TREE, a folder's README.md included, and every file written
\* still belongs to the catalog it was written for.
C30_DistinctPaths ==
  (attempted # <<>> /\ TreeHasDistinctIds) =>
    /\ \A j, k \in 1..Len(numberMap) :
         j # k => /\ numberMap[j].number # numberMap[k].number
                  /\ NumberString(numberMap[j].number)
                       # NumberString(numberMap[k].number)
    /\ \A j, k \in 1..Len(attempted) :
         j # k => attempted[j].path # attempted[k].path
    /\ \A k \in 1..Len(attempted) :
         attempted[k].write = "ok" =>
           \E f \in files : /\ f.path = attempted[k].path
                            /\ f.id = attempted[k].id

C30_Witness ==
  /\ StrategyReturned
  /\ exportStructure = "tree"
  /\ TreeHasDistinctIds
  /\ Ids(hierarchicalDocuments) = <<IdA>>
  /\ Len(hierarchicalDocuments[1].sub) = 2
  /\ \A k \in 1..Len(PositionedNodes) : PositionedNodes[k].name = NameN
  /\ FilePaths = { <<destination, <<"1", ".", " ", "N">>, StrReadme>>,
                   <<destination, <<"1", ".", " ", "N">>,
                     <<"1", ".", "1", ".", " ", "N", ".", "m", "d">>>>,
                   <<destination, <<"1", ".", " ", "N">>,
                     <<"1", ".", "2", ".", " ", "N", ".", "m", "d">>>> }

====
